---- MODULE Spec2Model ----
(***************************************************************************)
(* Age-aware similarity calibration (how-alike): the constrained linear   *)
(* calibrator, the penalty calibrator, their evaluators, the feature      *)
(* assembly, the training loops of the age probe and of the learned       *)
(* calibrator, the three fitting scripts run side by side, the entry      *)
(* points with their extraction and pair-generation loops, scoring with   *)
(* a fitted model and the calibrator audit, modelled from                 *)
(* src/scripts/train-linear-calibrator.py,                                *)
(* src/scripts/train-penalty-calibrator.py,                               *)
(* src/scripts/train-similarity-calibrator.py,                            *)
(* src/scripts/train-age-probe.py,                                        *)
(* src/scripts/train-age-probe-fairface.py and                            *)
(* src/scripts/audit-calibrator.py.                                       *)
(*                                                                         *)
(* Numbers are fixed point.  Rates and metrics are exact rationals        *)
(* <<numerator, denominator>> with a positive denominator.                *)
(***************************************************************************)
EXTENDS Integers, Sequences, FiniteSets, TLC

VARIABLES
    lin_pc,        \* constrained_linear_calibrator: "start" | "iter" | "done"
    lin_x,         \* current iterate [bias, w_sim, w_age, w_age2, w_unc]
    lin_nit,       \* iterations of minimize() done so far
    lin_trial,     \* the trial point of the last iteration, before projection
    pen_pc,        \* fit_penalty_calibrator: "start" | "iter" | "done"
    pen_x,         \* current iterate [alpha, tau, M]
    pen_nit,       \* iterations of minimize() done so far
    pen_trial,     \* the trial point of the last iteration, before projection
    pen_out,       \* <<>> or <<[s, age_diff, score]>>: last penalty_calibration call
    same_scores,   \* scores of the label-1 pairs handed to the evaluators
    diff_scores,   \* scores of the label-0 pairs handed to the evaluators
    lin_metrics,   \* <<>> or <<[auc, eer, tar]>>: result of evaluate_calibrator
    pen_metrics,   \* <<>> or <<[eer, tar]>>: result of evaluate_calibration
    asm_out,       \* <<>> or <<[by, in, feat, label]>>: the feature row last emitted
    tr_kind,       \* which training loop runs: "probe" | "calib"
    tr_pc,         \* "loop" | "save" | "load" | "done" | "failed" | "killed"
    tr_epoch,      \* epochs completed
    tr_val,        \* val_loss of the last epoch
    tr_best,       \* best_val_loss
    tr_pat,        \* patience_counter
    tr_params,     \* the parameters the in-memory model holds
    tr_file,       \* the checkpoint file '<name>_best.pth'
    tr_model,      \* the parameters of the returned model
    tr_first,      \* record of the run: the first epoch that had each validation loss
    fit_pc,        \* per fitting script: the statement it is at
    fit_st,        \* per fitting script: its memory [x, saved, success]
    fs,            \* the working directory: path -> [by, val]
    fit_read,      \* per fitting script: the paths it has opened for reading
    fit_wrote,     \* per fitting script: the paths it has opened for writing
    ex_script,     \* the entry point that runs: "probe" | "fairface" | "linear" | "penalty"
    ex_cfg,        \* what is on disk: [root, models], each present or not
    ex_pc,         \* "start" | "models" | "root" | "extract" | "loaded" | "aborted" | "crashed" | "done"
    ex_total,      \* samples (files, rows, pairs) the extraction loop is to visit
    ex_attempted,  \* samples visited so far
    ex_retained,   \* len(embeddings) / len(features)
    ex_skips,      \* per-sample messages printed for discarded samples
    ex_log,        \* what the run has printed or raised, in order
    sc_kind,       \* the CalibrationModel scored: "penalty" | "linear" | "learned"
    sc_pc,         \* "fit" | "fitted"
    sc_mode,       \* nn.Module.training of the learned network: "train" | "eval"
    sc_epochs,     \* epochs of train_calibrator done
    sc_params,     \* the parameters the model holds
    sc_fitted,     \* the parameters the fit returned
    sc_seen,       \* the <<feature, output>> pairs scoring has produced
    sc_calls,      \* scoring calls made
    sc_verdict,    \* <<>> or <<[p, age_sensitivity, verdict]>>: what the audit printed
    obj_same,      \* same_pairs handed to fit_penalty_calibrator: rows [similarity, age_diff]
    obj_diff,      \* diff_pairs handed to fit_penalty_calibrator
    obj_pc,        \* fit_penalty_calibrator on that data: "start" | "iter" | "done"
    obj_x,         \* current iterate [alpha, tau, M]
    obj_nit,       \* iterations of minimize() done so far
    gen_kind,      \* the generator that runs: "penalty" | "learned"
    gen_pool,      \* the embeddings of the pool, in pool order
    gen_num,       \* num_same (penalty) or num_pairs (learned)
    gen_pc,        \* "start" | "scan" | "sample" | "done" | "crashed"
    gen_at,        \* the pair <<i, j>> the scan examines next, <<>> past the last
    gen_high,      \* high_sim_pairs of generate_pair_data
    gen_pos,       \* the rows emitted with label 1: [i, j, similarity]
    col_script,    \* the loop that runs: "utkface" | "fairface" | "learned" | "linear"
    col_max,       \* max_samples / max_images
    col_src,       \* per directory, parquet file or pair list: the samples it holds
    col_pc,        \* "source" | "sample" | "half" | "extract" | "filter" | "done"
    col_d,         \* the source the outer loop is at
    col_k,         \* the sample of that source the inner loop is at
    col_lim,       \* the samples of that source the inner loop is to visit
    col_img,       \* images of generate_pair_data, by sample <<source, index>>
    col_emb,       \* embeddings / features, by the sample each was computed from
    col_lab,       \* ages / labels / predicted_ages and uncertainties, likewise
    pp_pc,         \* per age-probe trainer: "loop" | "save" | "load" | "done" | "failed"
    pp_epoch,      \* per trainer: epochs completed
    pp_best,       \* per trainer: best_val_loss
    pp_pat,        \* per trainer: patience_counter
    pp_params,     \* per trainer: the parameters its in-memory model holds
    pp_model,      \* per trainer: the parameters of the model it returned
    pp_file        \* 'age_probe_best.pth' in the working directory

linVars == <<lin_pc, lin_x, lin_nit, lin_trial>>
penVars == <<pen_pc, pen_x, pen_nit, pen_trial, pen_out>>
evalVars == <<same_scores, diff_scores, lin_metrics, pen_metrics>>
asmVars == <<asm_out>>
trVars == <<tr_kind, tr_pc, tr_epoch, tr_val, tr_best, tr_pat, tr_params, tr_file,
            tr_model, tr_first>>
fitVars == <<fit_pc, fit_st, fs, fit_read, fit_wrote>>
exVars == <<ex_script, ex_cfg, ex_pc, ex_total, ex_attempted, ex_retained, ex_skips, ex_log>>
scVars == <<sc_kind, sc_pc, sc_mode, sc_epochs, sc_params, sc_fitted, sc_seen, sc_calls,
            sc_verdict>>
objVars == <<obj_same, obj_diff, obj_pc, obj_x, obj_nit>>
genVars == <<gen_kind, gen_pool, gen_num, gen_pc, gen_at, gen_high, gen_pos>>
colVars == <<col_script, col_max, col_src, col_pc, col_d, col_k, col_lim, col_img, col_emb,
             col_lab>>
ppVars == <<pp_pc, pp_epoch, pp_best, pp_pat, pp_params, pp_model, pp_file>>
vars == <<linVars, penVars, evalVars, asmVars, trVars, fitVars, exVars, scVars, objVars, genVars, colVars, ppVars>>

----------------------------------------------------------------------------
(* Generic helpers *)

Max(a, b) == IF a >= b THEN a ELSE b
Min(a, b) == IF a <= b THEN a ELSE b
Abs(a) == IF a >= 0 THEN a ELSE 0 - a

\* A box bound of scipy's minimize: (lo, hi) with None for "no bound".
Bound(hasLo, lo, hasHi, hi) == [hasLo |-> hasLo, lo |-> lo, hasHi |-> hasHi, hi |-> hi]
NoBound == Bound(FALSE, 0, FALSE, 0)
LowerBound(lo) == Bound(TRUE, lo, FALSE, 0)
UpperBound(hi) == Bound(FALSE, 0, TRUE, hi)
Box(lo, hi) == Bound(TRUE, lo, TRUE, hi)

ClipBound(v, b) ==
    LET up == IF b.hasLo THEN Max(v, b.lo) ELSE v
    IN  IF b.hasHi THEN Min(up, b.hi) ELSE up

\* L-BFGS-B keeps every iterate inside the box: the trial point is projected
\* coordinate by coordinate onto bounds.
Project(x, bounds) == [i \in DOMAIN x |-> ClipBound(x[i], bounds[i])]

----------------------------------------------------------------------------
(* Constrained linear calibrator: train-linear-calibrator.py *)

\* Model bounds: the magnitude a trial weight may reach, and the number of
\* iterations followed.
ParamCap == 2
LinMaxIter == 2

\* Units: bias and w_sim in 1; w_age and w_unc in 0.01; w_age2 in 0.0001.
\* initial_params = [0.0, 1.0, -0.01, -0.0001, -0.01]
lin_initial_params == <<0, 1, -1, -1, -1>>

\* Variants of the box: without the floor on w_sim, without the ceiling on
\* w_age.
lin_bounds_no_sim == <<NoBound, NoBound, UpperBound(0), UpperBound(0), UpperBound(0)>>
lin_bounds_no_age == <<NoBound, LowerBound(0), NoBound, UpperBound(0), UpperBound(0)>>

\* bounds = [(None, None), (0.0, None), (None, 0.0), (None, 0.0), (None, 0.0)]
lin_bounds ==
    <<NoBound, LowerBound(0), UpperBound(0), UpperBound(0), UpperBound(0)>>

\* The points the line search may propose from x: any neighbour, feasible
\* or not, within the model range.
LinTrials(x) ==
    {t \in [1..5 -> (0 - ParamCap)..ParamCap] : \A i \in 1..5 : Abs(t[i] - x[i]) <= 1}

\* minimize(logistic_loss, initial_params, method='L-BFGS-B', bounds=bounds):
\* the starting point is clipped to the box.
LinStart ==
    /\ lin_pc = "start"
    /\ lin_x' = Project(lin_initial_params, lin_bounds)
    /\ lin_trial' = lin_initial_params
    /\ lin_nit' = 0
    /\ lin_pc' = "iter"

\* One iteration: whatever direction the loss (any training set) suggests,
\* the accepted point is the projection of the trial point onto the box.
LinIterate ==
    /\ lin_pc = "iter"
    /\ lin_nit < LinMaxIter
    /\ \E trial \in LinTrials(lin_x) :
          /\ lin_trial' = trial
          /\ lin_x' = Project(trial, lin_bounds)
    /\ lin_nit' = lin_nit + 1
    /\ lin_pc' = "iter"

\* Convergence or exhausted budget: params = result.x is returned.
LinReturn ==
    /\ lin_pc = "iter"
    /\ lin_pc' = "done"
    /\ UNCHANGED <<lin_x, lin_nit, lin_trial>>

LinInit ==
    /\ lin_pc = "start"
    /\ lin_x = lin_initial_params
    /\ lin_trial = lin_initial_params
    /\ lin_nit = 0

LinIdle ==
    /\ lin_pc = "idle"
    /\ lin_x = lin_initial_params
    /\ lin_trial = lin_initial_params
    /\ lin_nit = 0

\* exp(k) in thousandths for integer k; 0 below the table (underflow) and
\* the last entry above it (saturation).
ExpTable ==
    <<1, 2, 7, 18, 50, 135, 368, 1000, 2718, 7389, 20086, 54598, 148413,
      403429, 1096633, 2980958, 8103084, 22026466, 59874142, 162754791,
      442413392, 1202604284>>

ExpMilli(k) ==
    IF k < 0 - 7 THEN 0
    ELSE IF k > 14 THEN ExpTable[22]
    ELSE ExpTable[k + 8]

\* probs = 1 / (1 + np.exp(-logits)), in millionths.
Sigmoid(logit) == 1000000000 \div (1000 + ExpMilli(0 - logit))

\* logits = features @ params[1:] + params[0]
\* Feature units: similarity in 1, age_diff and uncertainty in 100, so that
\* every product is in units of 1.
Logit(params, f) ==
    params[1] + f[1] * params[2] + f[2] * params[3] + f[3] * params[4]
              + f[4] * params[5]

LinearProb(params, f) == Sigmoid(Logit(params, f))

\* Valid feature rows [s, |dage|, |dage|^2, u] of the scoring domain.
SimVals == {0 - 1, 0, 1}
AgeDiffVals == {0, 1, 2}
UncVals == {0, 1}
LinFeature(s, a, u) == <<s, a, a * a, u>>
LinFeatures == {LinFeature(s, a, u) : s \in SimVals, a \in AgeDiffVals, u \in UncVals}

----------------------------------------------------------------------------
(* Penalty calibrator: train-penalty-calibrator.py *)

\* Units: ages, tau and M in 5 years; alpha in 0.005 per year; similarity
\* and calibrated scores in 0.025 (= 0.005 * 5).

\* Model bounds: how far outside the box a trial point may lie, the number
\* of iterations followed, and the largest age gap scored.
PenOver == 1
PenMaxIter == 2
PenAgeMax == 21

\* initial_params = [0.005, 5.0, 30.0]
pen_initial_params == <<1, 1, 6>>

\* Variant of the box: alpha without its upper bound.
pen_bounds_open_alpha == <<LowerBound(0), Box(0, 4), Box(2, 16)>>

\* Variant of the box: alpha allowed below zero.
pen_bounds_signed_alpha == <<Box(0 - 1, 4), Box(0, 4), Box(2, 16)>>

\* bounds = [(0.0, 0.02), (0.0, 20.0), (10.0, 80.0)]
pen_bounds == <<Box(0, 4), Box(0, 4), Box(2, 16)>>

PenTrials ==
    {<<a, t, m>> : a \in (0 - PenOver)..(4 + PenOver),
                   t \in (0 - PenOver)..(4 + PenOver),
                   m \in (2 - PenOver)..(16 + PenOver)}

\* np.clip(a, a_min, a_max) = minimum(maximum(a, a_min), a_max)
\* Variant: the upper clamp alone.
clip_no_floor(a, a_min, a_max) == Min(a, a_max)
clip(a, a_min, a_max) == Min(Max(a, a_min), a_max)

\* penalty = alpha * np.clip(age_diff - tau, 0, M); return similarity - penalty
penalty_calibration(similarity, age_diff, alpha, tau, M) ==
    similarity - alpha * clip(age_diff - tau, 0, M)

PenStart ==
    /\ pen_pc = "start"
    /\ pen_x' = Project(pen_initial_params, pen_bounds)
    /\ pen_trial' = pen_initial_params
    /\ pen_nit' = 0
    /\ pen_pc' = "iter"
    /\ UNCHANGED pen_out

\* One iteration of minimize(lambda p: evaluate_calibration(p, ...),
\* method='L-BFGS-B', bounds=bounds): the projected trial point.
PenIterate ==
    /\ pen_pc = "iter"
    /\ pen_nit < PenMaxIter
    /\ \E trial \in PenTrials :
          /\ pen_trial' = trial
          /\ pen_x' = Project(trial, pen_bounds)
    /\ pen_nit' = pen_nit + 1
    /\ pen_pc' = "iter"
    /\ UNCHANGED pen_out

\* alpha, tau, M = result.x
PenReturn ==
    /\ pen_pc = "iter"
    /\ pen_pc' = "done"
    /\ UNCHANGED <<pen_x, pen_nit, pen_trial, pen_out>>

PenSimVals == {0 - 4, 0, 36}

\* The age gaps a caller may hand to penalty_calibration: the function
\* takes any number, so one negative gap (-5 years) stands with the
\* absolute differences the pair generators produce.
PenAgeDiffs == (0 - 1)..PenAgeMax

\* Scoring one pair with the fitted parameters.  penalty_calibration has no
\* check on its arguments and no path that raises.
PenScore ==
    /\ pen_pc = "done"
    /\ pen_out = <<>>
    /\ \E sim \in PenSimVals, ad \in PenAgeDiffs :
          pen_out' = <<[s |-> sim, age_diff |-> ad,
                        score |-> penalty_calibration(sim, ad, pen_x[1], pen_x[2], pen_x[3])]>>
    /\ UNCHANGED <<pen_pc, pen_x, pen_nit, pen_trial>>

PenInit ==
    /\ pen_pc = "start"
    /\ pen_x = pen_initial_params
    /\ pen_trial = pen_initial_params
    /\ pen_nit = 0
    /\ pen_out = <<>>

PenIdle ==
    /\ pen_pc = "idle"
    /\ pen_x = pen_initial_params
    /\ pen_trial = pen_initial_params
    /\ pen_nit = 0
    /\ pen_out = <<>>

----------------------------------------------------------------------------
(* Evaluation: evaluate_calibrator (train-linear-calibrator.py) and        *)
(* evaluate_calibration (train-penalty-calibrator.py)                      *)

\* A score n stands for n/10.  ScoreGe(n, num, den): n/10 >= num/den.
ScoreGe(n, num, den) == n * den >= num * 10
ScoreLt(n, num, den) == n * den < num * 10

\* Rationals <<numerator, denominator>>, denominator > 0.
RatEq(p, q) == p[1] * q[2] = q[1] * p[2]
RatLe(p, q) == p[1] * q[2] <= q[1] * p[2]
RatLt(p, q) == p[1] * q[2] < q[1] * p[2]

\* Program constants of the evaluators.
LinGridN == 1000
PenGridN == 1000
TarGridN == 10000
FarDen == 1000

\* np.sum over a boolean mask.
CountGe(scores, num, den) ==
    Cardinality({i \in DOMAIN scores : ScoreGe(scores[i], num, den)})
CountLt(scores, num, den) ==
    Cardinality({i \in DOMAIN scores : ScoreLt(scores[i], num, den)})

\* x / n if n > 0 else 0, kept as numerator over the denominator OrOne(n).
OrOne(n) == IF n > 0 THEN n ELSE 1
RateNum(x, n) == IF n > 0 THEN x ELSE 0

\* Sum of term[i] for i in lo..hi (term is an array), by halving.
RECURSIVE SumOver(_, _, _)
SumOver(term, lo, hi) ==
    IF lo > hi THEN 0
    ELSE IF lo = hi THEN term[lo]
    ELSE LET mid == (lo + hi) \div 2
         IN  SumOver(term, lo, mid) + SumOver(term, mid + 1, hi)

\* np.argmin over key[lo..hi]: the first index of the least value.
RECURSIVE ArgMin(_, _, _)
ArgMin(key, lo, hi) ==
    IF lo = hi THEN lo
    ELSE LET mid == (lo + hi) \div 2
             l == ArgMin(key, lo, mid)
             r == ArgMin(key, mid + 1, hi)
         IN  IF key[r] < key[l] THEN r ELSE l

\* The first index in lo..hi whose flag is set, or hi + 1: a for loop that
\* breaks at the first hit.
RECURSIVE FirstIdx(_, _, _)
FirstIdx(flag, lo, hi) ==
    IF lo = hi THEN (IF flag[lo] THEN lo ELSE hi + 1)
    ELSE LET mid == (lo + hi) \div 2
             l == FirstIdx(flag, lo, mid)
         IN  IF l <= mid THEN l ELSE FirstIdx(flag, mid + 1, hi)

\* np.trapz(y, x) * 2 over arrays indexed 0..n-1 (numerators only).
Trapz2(y, x, n) ==
    SumOver([i \in 0..(n - 2) |-> (x[i + 1] - x[i]) * (y[i + 1] + y[i])], 0, n - 2)

\* evaluate_calibrator, lines 263-305.  probs/labels are the same-pair
\* scores (label 1) followed by the different-pair scores (label 0);
\* thresholds = np.linspace(0, 1, 1000), threshold k is k/999.
lin_tp(same, k) == CountGe(same, k, LinGridN - 1)
lin_fp(diff, k) == CountGe(diff, k, LinGridN - 1)

\* Variant: the error sum fnr + fpr (times ab) as the key.
lin_eer_key_sum(tp, fp, a, b) ==
    [k \in 0..(LinGridN - 1) |-> (a - tp[k]) * b + fp[k] * a]

\* np.abs(tpr_list - (1 - fpr_list)) times ab
lin_eer_key(tp, fp, a, b) ==
    [k \in 0..(LinGridN - 1) |-> Abs(tp[k] * b - (a * b - fp[k] * a))]

lin_far_hit(fp, b) == [k \in 0..(LinGridN - 1) |-> fp[k] * FarDen <= b]

evaluate_calibrator(same, diff) ==
    LET a == OrOne(Len(same))
        b == OrOne(Len(diff))
        \* tpr = tp / (tp + fn) if (tp + fn) > 0 else 0: numerators over a, b
        tpr_list == [k \in 0..(LinGridN - 1) |-> RateNum(lin_tp(same, k), Len(same))]
        fpr_list == [k \in 0..(LinGridN - 1) |-> RateNum(lin_fp(diff, k), Len(diff))]
        \* eer_idx = np.argmin(np.abs(tpr_list - (1 - fpr_list)))
        eer_idx == ArgMin(lin_eer_key(tpr_list, fpr_list, a, b), 0, LinGridN - 1)
        far_idx == FirstIdx(lin_far_hit(fpr_list, b), 0, LinGridN - 1)
    IN  [auc |-> <<Trapz2(tpr_list, fpr_list, LinGridN), 2 * a * b>>,
         \* eer = (fpr_list[eer_idx] + (1 - tpr_list[eer_idx])) / 2
         eer |-> <<fpr_list[eer_idx] * a + (a - tpr_list[eer_idx]) * b, 2 * a * b>>,
         eer_idx |-> eer_idx,
         tar |-> IF far_idx < LinGridN THEN <<tpr_list[far_idx], a>> ELSE <<0, 1>>]

\* evaluate_calibration, lines 52-99, on the calibrated scores.
\* EER loop: thresholds = np.linspace(0, 1, 1000); best_eer starts at 1.0.
pen_fn(same, k) == Len(same) - CountGe(same, k, PenGridN - 1)
pen_fp(diff, k) == Len(diff) - CountLt(diff, k, PenGridN - 1)

\* (fnr + fpr) / 2 as a numerator over 2ab
pen_eer_num(same, diff, a, b) ==
    [k \in 0..(PenGridN - 1) |->
        RateNum(pen_fn(same, k), Len(same)) * b + RateNum(pen_fp(diff, k), Len(diff)) * a]

\* TAR loop: for threshold in np.linspace(1, 0, 10000): threshold j is
\* (9999 - j)/9999.
\* Variant: the comparison of the linear evaluator, fpr <= target.
pen_far_hit_le(diff, b) ==
    [j \in 0..(TarGridN - 1) |->
        RateNum(CountGe(diff, TarGridN - 1 - j, TarGridN - 1), Len(diff)) * FarDen <= b]

\* if fpr >= target_fpr
pen_far_hit(diff, b) ==
    [j \in 0..(TarGridN - 1) |->
        RateNum(CountGe(diff, TarGridN - 1 - j, TarGridN - 1), Len(diff)) * FarDen >= b]

evaluate_calibration(same, diff) ==
    LET a == OrOne(Len(same))
        b == OrOne(Len(diff))
        num == pen_eer_num(same, diff, a, b)
        idx == ArgMin(num, 0, PenGridN - 1)
        far_idx == FirstIdx(pen_far_hit(diff, b), 0, TarGridN - 1)
    IN  \* if eer < best_eer: best_eer = eer, starting from best_eer = 1.0
        [eer |-> IF num[idx] < 2 * a * b THEN <<num[idx], 2 * a * b>> ELSE <<1, 1>>,
         best_threshold |-> IF num[idx] < 2 * a * b THEN <<idx, PenGridN - 1>> ELSE <<1, 2>>,
         tar |-> IF far_idx < TarGridN
                 THEN <<RateNum(CountGe(same, TarGridN - 1 - far_idx, TarGridN - 1), Len(same)), a>>
                 ELSE <<0, 1>>]

\* Model bound: pairs in the evaluation set.
MaxPairs == 3
ScoreVals == {0, 5, 10}

NonDecreasing(scores, v) == IF scores = <<>> THEN TRUE ELSE scores[Len(scores)] <= v

\* The evaluation set is assembled before either evaluator runs.  The
\* metrics do not depend on the order of the pairs, so each multiset is
\* held in non-decreasing order.
AddSame ==
    /\ lin_metrics = <<>> /\ pen_metrics = <<>>
    /\ Len(same_scores) + Len(diff_scores) < MaxPairs
    /\ \E v \in ScoreVals :
          /\ NonDecreasing(same_scores, v)
          /\ same_scores' = Append(same_scores, v)
    /\ UNCHANGED <<diff_scores, lin_metrics, pen_metrics>>

AddDiff ==
    /\ lin_metrics = <<>> /\ pen_metrics = <<>>
    /\ Len(same_scores) + Len(diff_scores) < MaxPairs
    /\ \E v \in ScoreVals :
          /\ NonDecreasing(diff_scores, v)
          /\ diff_scores' = Append(diff_scores, v)
    /\ UNCHANGED <<same_scores, lin_metrics, pen_metrics>>

EvaluateLinear ==
    /\ lin_metrics = <<>>
    /\ lin_metrics' = <<evaluate_calibrator(same_scores, diff_scores)>>
    /\ UNCHANGED <<same_scores, diff_scores, pen_metrics>>

EvaluatePenalty ==
    /\ pen_metrics = <<>>
    /\ pen_metrics' = <<evaluate_calibration(same_scores, diff_scores)>>
    /\ UNCHANGED <<same_scores, diff_scores, lin_metrics>>

EvalInit ==
    /\ same_scores = <<>>
    /\ diff_scores = <<>>
    /\ lin_metrics = <<>>
    /\ pen_metrics = <<>>

EvalIdle == EvalInit

----------------------------------------------------------------------------
(* Feature assembly: extract_features_from_pairs (train-linear-calibrator) *)
(* and generate_pair_data (train-similarity-calibrator)                    *)

\* A face is what the two sessions return for one image: an embedding (two
\* components here), a predicted age and an uncertainty, both in tenths.
Embeddings == {<<0, 0>>, <<1, 0>>, <<1, 1>>, <<3, 4>>}
Ages == {0, 235, 612}
Uncertainties == {20, 70}
Faces == [emb : Embeddings, age : Ages, unc : Uncertainties]

\* Integer square root by bisection.
RECURSIVE ISqrtIn(_, _, _)
ISqrtIn(n, lo, hi) ==
    IF lo >= hi THEN lo
    ELSE LET mid == (lo + hi + 1) \div 2
         IN  IF mid * mid <= n THEN ISqrtIn(n, mid, hi) ELSE ISqrtIn(n, lo, mid - 1)

\* np.linalg.norm(emb), in thousandths
NormMilli(e) == ISqrtIn(1000000 * (e[1] * e[1] + e[2] * e[2]), 0, 40000)

\* emb / np.linalg.norm(emb) and float(np.dot(.,.)): a zero norm divides
\* 0 by 0 and the similarity is NaN.
cosine_similarity(e1, e2) ==
    LET n1 == NormMilli(e1)
        n2 == NormMilli(e2)
    IN  IF n1 = 0 \/ n2 = 0
        THEN [nan |-> TRUE, val |-> 0]
        ELSE LET a == [i \in 1..2 |-> (e1[i] * 1000000) \div n1]
                 b == [i \in 1..2 |-> (e2[i] * 1000000) \div n2]
             IN  [nan |-> FALSE, val |-> (a[1] * b[1] + a[2] * b[2]) \div 1000]

\* age_diff = abs(age1 - age2)
\* Variant: the signed difference.
age_diff_signed(age1, age2) == age1 - age2
age_diff_of(age1, age2) == Abs(age1 - age2)

\* avg_uncertainty = (unc1 + unc2) / 2
avg_uncertainty_of(unc1, unc2) == (unc1 + unc2) \div 2

\* feature_vec = [similarity, age_diff, age_diff**2, avg_uncertainty]
linear_feature_vec(f1, f2) ==
    LET ad == age_diff_of(f1.age, f2.age)
    IN  <<cosine_similarity(f1.emb, f2.emb), ad, ad * ad,
          avg_uncertainty_of(f1.unc, f2.unc)>>

\* features.append([similarity, age_diff, avg_uncertainty])
learned_feature_vec(f1, f2) ==
    <<cosine_similarity(f1.emb, f2.emb), age_diff_of(f1.age, f2.age),
      avg_uncertainty_of(f1.unc, f2.unc)>>

\* One iteration of the loop of extract_features_from_pairs over a pair
\* whose two images load: the row and its label are appended.  The row is
\* a function of the two faces alone, so each behaviour follows one pair.
ExtractPair ==
    /\ asm_out = <<>>
    /\ \E f1 \in Faces, f2 \in Faces, label \in {0, 1} :
        asm_out' = <<[by |-> "linear", in |-> <<f1, f2>>,
                      feat |-> linear_feature_vec(f1, f2), label |-> label]>>

\* generate_pair_data, lines 187-202: a random pair, labelled 0.
GenRandomPair ==
    /\ asm_out = <<>>
    /\ \E f1 \in Faces, f2 \in Faces :
        asm_out' = <<[by |-> "learned", in |-> <<f1, f2>>,
                      feat |-> learned_feature_vec(f1, f2), label |-> 0]>>

\* generate_pair_data, lines 211-220: a pair of the local window whose
\* similarity exceeds 0.7, labelled 1.
GenHighSimPair ==
    /\ asm_out = <<>>
    /\ \E f1 \in Faces, f2 \in Faces :
        LET sim == cosine_similarity(f1.emb, f2.emb)
        IN  /\ ~sim.nan
            /\ sim.val > 700
            /\ asm_out' = <<[by |-> "learned", in |-> <<f1, f2>>,
                             feat |-> learned_feature_vec(f1, f2), label |-> 1]>>

AsmInit == asm_out = <<>>
AsmIdle == asm_out = <<>>

----------------------------------------------------------------------------
(* Training loops: train_age_probe (train-age-probe.py and                 *)
(* train-age-probe-fairface.py) and train_calibrator                       *)
(* (train-similarity-calibrator.py)                                        *)

\* Model bound: the epochs a run may take (num_epochs; the callers pass 100
\* and 200).
MaxEpochs == 18
num_epochs == MaxEpochs

\* A Python float: a number, NaN or +inf.
Num(v) == [k |-> "num", v |-> v]
NaN == [k |-> "nan", v |-> 0]
Inf == [k |-> "inf", v |-> 0]

\* a < b on floats: every comparison with NaN is False.
FloatLt(a, b) ==
    IF a.k = "nan" \/ b.k = "nan" THEN FALSE
    ELSE IF a.k = "inf" THEN FALSE
    ELSE IF b.k = "inf" THEN TRUE
    ELSE a.v < b.v

\* The validation losses an epoch may end with.  The probe's loss
\* (mae + 0.1 * pred_unc).mean() is NaN once the predictions are; nn.BCELoss
\* refuses inputs outside [0,1] and bounds its logarithms, so the loss of
\* the calibrator is a number.
LossNums == {1, 2}
ValLosses(kind) ==
    IF kind = "probe" THEN {Num(v) : v \in LossNums} \cup {NaN}
    ELSE {Num(v) : v \in LossNums}

\* if patience_counter >= 10 (probe) / >= 15 (calibrator)
patience(kind) == IF kind = "probe" THEN 10 ELSE 15

\* Variant: the comparison of the stop test slipped to >.
stagnant_gt(counter, kind) == counter > patience(kind)
stagnant(counter, kind) == counter >= patience(kind)

\* if val_loss < best_val_loss
improves(val_loss, best_val_loss) == FloatLt(val_loss, best_val_loss)

\* model.state_dict() at the end of epoch e of a run, and a file.
Snapshot(run, e) == [run |-> run, epoch |-> e]
NoSnapshot == Snapshot("none", 0)
File(st, snap) == [st |-> st, snap |-> snap]
AbsentFile == File("absent", NoSnapshot)

\* One pass of the for loop: the training batches change the parameters,
\* the validation batches give val_loss, and the early-stopping block
\* follows.  (scheduler.step only changes the step size of later epochs,
\* which the free choice of every epoch's loss covers.)  torch.save(...,
\* path) opens path for writing before it serialises: the old content is
\* gone while the write is under way.
TrainEpoch ==
    /\ tr_pc = "loop"
    /\ tr_epoch < num_epochs
    /\ \E val_loss \in ValLosses(tr_kind) :
          /\ tr_val' = val_loss
          /\ tr_first' = IF val_loss.k = "num" /\ tr_first[val_loss.v] = 0
                         THEN [tr_first EXCEPT ![val_loss.v] = tr_epoch + 1]
                         ELSE tr_first
          /\ IF improves(val_loss, tr_best)
             THEN /\ tr_best' = val_loss
                  /\ tr_pat' = 0
                  /\ tr_file' = File("partial", Snapshot("this", tr_epoch + 1))
                  /\ tr_pc' = "save"
             ELSE /\ tr_pat' = tr_pat + 1
                  /\ tr_pc' = IF stagnant(tr_pat + 1, tr_kind) THEN "load" ELSE "loop"
                  /\ UNCHANGED <<tr_best, tr_file>>
    /\ tr_epoch' = tr_epoch + 1
    /\ tr_params' = Snapshot("this", tr_epoch + 1)
    /\ UNCHANGED <<tr_kind, tr_model>>

\* torch.save returns: the file holds the state_dict.
TrainSaved ==
    /\ tr_pc = "save"
    /\ tr_file' = File("complete", tr_params)
    /\ tr_pc' = "loop"
    /\ UNCHANGED <<tr_kind, tr_epoch, tr_val, tr_best, tr_pat, tr_params, tr_model, tr_first>>

\* range(num_epochs) is exhausted.
TrainLoopEnd ==
    /\ tr_pc = "loop"
    /\ tr_epoch = num_epochs
    /\ tr_pc' = "load"
    /\ UNCHANGED <<tr_kind, tr_epoch, tr_val, tr_best, tr_pat, tr_params, tr_file,
                   tr_model, tr_first>>

\* model.load_state_dict(torch.load('<name>_best.pth')); return model.
\* A missing file raises.
TrainLoad ==
    /\ tr_pc = "load"
    /\ IF tr_file.st = "complete"
       THEN /\ tr_params' = tr_file.snap
            /\ tr_model' = tr_file.snap
            /\ tr_pc' = "done"
       ELSE /\ tr_pc' = "failed"
            /\ UNCHANGED <<tr_params, tr_model>>
    /\ UNCHANGED <<tr_kind, tr_epoch, tr_val, tr_best, tr_pat, tr_file, tr_first>>

\* The process is interrupted (Ctrl-C, kill) between epochs or while
\* torch.save is writing; nothing of the loop handles it.
TrainKill ==
    /\ tr_pc \in {"loop", "save"}
    /\ tr_pc' = "killed"
    /\ UNCHANGED <<tr_kind, tr_epoch, tr_val, tr_best, tr_pat, tr_params, tr_file,
                   tr_model, tr_first>>

\* The working directory holds no checkpoint, or the one an earlier run of
\* the script left there.
TrInit ==
    /\ tr_kind \in {"probe", "calib"}
    /\ tr_pc = "loop"
    /\ tr_epoch = 0
    /\ tr_val = NaN
    /\ tr_best = Inf
    /\ tr_pat = 0
    /\ tr_params = Snapshot("this", 0)
    /\ tr_file \in {AbsentFile, File("complete", Snapshot("earlier", 1))}
    /\ tr_model = NoSnapshot
    /\ tr_first = [v \in LossNums |-> 0]

TrIdle ==
    /\ tr_kind = "probe"
    /\ tr_pc = "idle"
    /\ tr_epoch = 0
    /\ tr_val = NaN
    /\ tr_best = Inf
    /\ tr_pat = 0
    /\ tr_params = Snapshot("this", 0)
    /\ tr_file = AbsentFile
    /\ tr_model = NoSnapshot
    /\ tr_first = [v \in LossNums |-> 0]

----------------------------------------------------------------------------
(* The three fitting scripts run side by side in one working directory:    *)
(* train-similarity-calibrator.py ("learned"), train-linear-calibrator.py  *)
(* ("linear") and train-penalty-calibrator.py ("penalty")                  *)

Fits == {"learned", "linear", "penalty"}

\* Model bound: the epochs of the learned fit that are followed.
MaxFitEpochs == 2

\* The parameter vectors a bounded fit may return (result.x).
FitParams == {1, 2}

\* The paths the scripts name.
mobilefacenet_path == "web/public/models/mobilefacenet/mobilefacenet.onnx"
age_probe_path == "web/public/models/age-probe/age_probe.onnx"
cal_ckpt_path == "similarity_calibrator_best.pth"
cal_onnx_path == "web/public/models/similarity-calibrator/calibrator.onnx"
\* Variant: the output path of the penalty script pasted into the linear one.
lin_output_path_pasted == "web/public/models/similarity-calibrator/penalty.json"
lin_output_path == "web/public/models/similarity-calibrator/linear.json"
pen_output_path == "web/public/models/similarity-calibrator/penalty.json"
pen_plot_path == "penalty-calibration-curve.png"

FitPaths ==
    {mobilefacenet_path, age_probe_path, cal_ckpt_path, cal_onnx_path,
     lin_output_path, pen_output_path, pen_plot_path}

Content(by, val) == [by |-> by, val |-> val]
Unwritten == Content("none", <<>>)

\* calibrator = {'type': 'constrained_linear', 'bias': ..., 'w_similarity':
\* ..., 'w_age_diff': ..., 'w_age_diff_sq': ..., 'w_uncertainty': ...,
\* 'description': ...}: the type and the parameter vector.
linear_artifact(x) == <<"constrained_linear", x>>
\* calibrator_params = {'type': 'penalty', 'alpha': ..., 'tau': ..., 'M':
\* ..., 'description': ...}
penalty_artifact(x) == <<"penalty", x>>

FitAt(f, pc) == fit_pc' = [fit_pc EXCEPT ![f] = pc]
FitReads(f, paths) == fit_read' = [fit_read EXCEPT ![f] = @ \cup paths]
FitWrites(f, path, val) ==
    /\ fs' = [fs EXCEPT ![path] = Content(f, val)]
    /\ fit_wrote' = [fit_wrote EXCEPT ![f] = @ \cup {path}]

\* ort.InferenceSession(mobilefacenet_path), ort.InferenceSession(age_probe_path)
FitLoadModels(f) ==
    /\ fit_pc[f] = "start"
    /\ FitAt(f, "fit")
    /\ FitReads(f, {mobilefacenet_path, age_probe_path})
    /\ UNCHANGED <<fit_st, fs, fit_wrote>>

\* One epoch of train_calibrator inside the learned script: the parameters
\* move, and an improving epoch (the first always is) saves them.
LearnedEpoch ==
    /\ fit_pc["learned"] = "fit"
    /\ fit_st["learned"].x < MaxFitEpochs
    /\ \E improved \in BOOLEAN :
          LET e == fit_st["learned"].x + 1
          IN  IF improved \/ e = 1
              THEN /\ fit_st' = [fit_st EXCEPT !["learned"].x = e, !["learned"].saved = e]
                   /\ FitWrites("learned", cal_ckpt_path, <<e>>)
              ELSE /\ fit_st' = [fit_st EXCEPT !["learned"].x = e]
                   /\ UNCHANGED <<fs, fit_wrote>>
    /\ UNCHANGED <<fit_pc, fit_read>>

\* model.load_state_dict(torch.load('similarity_calibrator_best.pth'))
LearnedLoadBest ==
    /\ fit_pc["learned"] = "fit"
    /\ fit_st["learned"].x >= 1
    /\ fs[cal_ckpt_path] # Unwritten
    /\ fit_st' = [fit_st EXCEPT !["learned"].x = fs[cal_ckpt_path].val[1]]
    /\ FitReads("learned", {cal_ckpt_path})
    /\ FitAt("learned", "save")
    /\ UNCHANGED <<fs, fit_wrote>>

\* export_to_onnx(model): torch.onnx.export to calibrator.onnx, then
\* os.path.getsize of it.
LearnedExport ==
    /\ fit_pc["learned"] = "save"
    /\ FitWrites("learned", cal_onnx_path, <<fit_st["learned"].x>>)
    /\ FitReads("learned", {cal_onnx_path})
    /\ FitAt("learned", "done")
    /\ UNCHANGED fit_st

\* result = minimize(..., method='L-BFGS-B', bounds=bounds, options={...,
\* 'maxiter': ...}); the function returns result.x.  result.success is
\* False when the iteration budget ran out; it is not read.
BoundedFit(f) ==
    /\ f \in {"linear", "penalty"}
    /\ fit_pc[f] = "fit"
    /\ \E x \in FitParams, success \in BOOLEAN :
          fit_st' = [fit_st EXCEPT ![f].x = x, ![f].success = success]
    /\ FitAt(f, "save")
    /\ UNCHANGED <<fs, fit_read, fit_wrote>>

\* json.dump(calibrator, f) to linear.json, then os.path.getsize of it.
LinearSave ==
    /\ fit_pc["linear"] = "save"
    /\ FitWrites("linear", lin_output_path, linear_artifact(fit_st["linear"].x))
    /\ FitReads("linear", {lin_output_path})
    /\ FitAt("linear", "done")
    /\ UNCHANGED fit_st

\* json.dump(calibrator_params, f) to penalty.json
PenaltySave ==
    /\ fit_pc["penalty"] = "save"
    /\ FitWrites("penalty", pen_output_path, penalty_artifact(fit_st["penalty"].x))
    /\ FitAt("penalty", "plot")
    /\ UNCHANGED <<fit_st, fit_read>>

\* plt.savefig('penalty-calibration-curve.png'): the curve of the fitted
\* parameters.
PenaltyPlot ==
    /\ fit_pc["penalty"] = "plot"
    /\ FitWrites("penalty", pen_plot_path, <<fit_st["penalty"].x>>)
    /\ FitAt("penalty", "done")
    /\ UNCHANGED <<fit_st, fit_read>>

FitsInit ==
    /\ fit_pc = [f \in Fits |-> "start"]
    /\ fit_st = [f \in Fits |-> [x |-> 0, saved |-> 0, success |-> TRUE]]
    /\ fs = [p \in FitPaths |->
               IF p \in {mobilefacenet_path, age_probe_path}
               THEN Content("setup", <<0>>) ELSE Unwritten]
    /\ fit_read = [f \in Fits |-> {}]
    /\ fit_wrote = [f \in Fits |-> {}]

FitsIdle ==
    /\ fit_pc = [f \in Fits |-> "idle"]
    /\ fit_st = [f \in Fits |-> [x |-> 0, saved |-> 0, success |-> TRUE]]
    /\ fs = [p \in FitPaths |-> Unwritten]
    /\ fit_read = [f \in Fits |-> {}]
    /\ fit_wrote = [f \in Fits |-> {}]

----------------------------------------------------------------------------
(* Entry points and their extraction loops: train-age-probe.py ("probe"),  *)
(* train-age-probe-fairface.py ("fairface"), train-linear-calibrator.py    *)
(* ("linear") and train-penalty-calibrator.py ("penalty")                  *)

Scripts == {"probe", "fairface", "linear", "penalty"}

\* Model bound: the samples a dataset holds.
MaxSamples == 3

\* What one pass of the extraction loop can meet.  The UTKFace loops parse
\* the age from the file name and drop ages over 100; the pair loop and the
\* FairFace loop do not.
Outcomes(script) ==
    IF script \in {"probe", "penalty"}
    THEN {"ok", "unparseable", "over_age", "unreadable", "exception"}
    ELSE {"ok", "unreadable", "exception"}

\* Whether the loop prints anything for a discarded sample: only the
\* except clauses print(f"  [WARN] Failed on pair {idx}: {e}") and
\* print(f"[SKIP] Error processing sample {idx}: {e}") do.
announces(script, outcome) ==
    script \in {"linear", "fairface"} /\ outcome = "exception"

\* Whether a missing dataset raises: load_agedb30 / load_calfw /
\* auto_detect_dataset and extract_embeddings_from_fairface raise
\* FileNotFoundError; the UTKFace loops skip a directory that is not there.
raises_on_missing_root(script) == script \in {"linear", "fairface"}

\* ort.InferenceSession(model_path): a missing model file raises, naming
\* the path.  The linear script loads its dataset first.
EntryLoadModels ==
    /\ ex_pc = (IF ex_script = "linear" THEN "models" ELSE "start")
    /\ IF ex_cfg.models
       THEN /\ ex_pc' = (IF ex_script = "linear" THEN "extract" ELSE "root")
            /\ UNCHANGED ex_log
       ELSE /\ ex_pc' = "aborted"
            /\ ex_log' = Append(ex_log, "error_named")
    /\ UNCHANGED <<ex_script, ex_cfg, ex_total, ex_attempted, ex_retained, ex_skips>>

\* The dataset is looked up: the pairs file, the parquet directory, or the
\* three UTKFace directories.
EntryOpenDataset ==
    /\ ex_pc = (IF ex_script = "linear" THEN "start" ELSE "root")
    /\ IF ex_cfg.root
       THEN /\ \E n \in 0..MaxSamples : ex_total' = n
            /\ ex_pc' = (IF ex_script = "linear" THEN "models" ELSE "extract")
            /\ UNCHANGED ex_log
       ELSE IF raises_on_missing_root(ex_script)
            THEN /\ ex_pc' = "aborted"
                 /\ ex_log' = Append(ex_log, "error_named")
                 /\ UNCHANGED ex_total
            ELSE \* if not os.path.exists(utkface_dir): continue
                 /\ ex_pc' = "extract"
                 /\ ex_total' = 0
                 /\ ex_log' = IF ex_script = "probe"
                              THEN Append(ex_log, "skip_dir") ELSE ex_log
    /\ UNCHANGED <<ex_script, ex_cfg, ex_attempted, ex_retained, ex_skips>>

\* One pass of the extraction loop: the sample is appended, or dropped by a
\* continue (directly or in the except clause).
ExtractSample ==
    /\ ex_pc = "extract"
    /\ ex_attempted < ex_total
    /\ \E outcome \in Outcomes(ex_script) :
          /\ ex_retained' = IF outcome = "ok" THEN ex_retained + 1 ELSE ex_retained
          /\ ex_skips' = IF announces(ex_script, outcome) THEN ex_skips + 1 ELSE ex_skips
    /\ ex_attempted' = ex_attempted + 1
    /\ UNCHANGED <<ex_script, ex_cfg, ex_pc, ex_total, ex_log>>

\* print(f"[OK] Extracted {len(embeddings)} embeddings") and return
ExtractEnd ==
    /\ ex_pc = "extract"
    /\ ex_attempted = ex_total
    /\ ex_log' = Append(ex_log, "extracted")
    /\ ex_pc' = "loaded"
    /\ UNCHANGED <<ex_script, ex_cfg, ex_total, ex_attempted, ex_retained, ex_skips>>

\* The rest of the script on the corpus: ages.min() (probe, penalty) or
\* train_test_split (linear) raises ValueError on an empty corpus; on a
\* non-empty one the split, the fit and the writes follow, and may still
\* fail when the corpus is too small for them.
EntryUseCorpus ==
    /\ ex_pc = "loaded"
    /\ IF ex_retained = 0
       THEN /\ ex_pc' = "crashed"
            /\ ex_log' = Append(ex_log, "error_other")
       ELSE \/ /\ ex_pc' = "done"
               /\ ex_log' = ex_log \o <<"fit", "write">>
            \/ /\ ex_pc' = "crashed"
               /\ ex_log' = Append(ex_log, "error_other")
    /\ UNCHANGED <<ex_script, ex_cfg, ex_total, ex_attempted, ex_retained, ex_skips>>

ExInit ==
    /\ ex_script \in Scripts
    /\ ex_cfg \in [root : BOOLEAN, models : BOOLEAN]
    /\ ex_pc = "start"
    /\ ex_total = 0
    /\ ex_attempted = 0
    /\ ex_retained = 0
    /\ ex_skips = 0
    /\ ex_log = <<>>

ExIdle ==
    /\ ex_script = "probe"
    /\ ex_cfg = [root |-> TRUE, models |-> TRUE]
    /\ ex_pc = "idle"
    /\ ex_total = 0
    /\ ex_attempted = 0
    /\ ex_retained = 0
    /\ ex_skips = 0
    /\ ex_log = <<>>

----------------------------------------------------------------------------
(* Scoring with a fitted model: penalty_calibration, the linear sigmoid,  *)
(* SimilarityCalibrator.forward                                            *)

\* Model bounds: the width of the hidden layers followed and the number of
\* scoring calls made on one fitted model.
NetWidth == 2
MaxScoreCalls == 2

CalibrationModels == {"penalty", "linear", "learned"}

\* FacePairFeature rows [similarity, age_diff, uncertainty].
ScFeatures == {<<s, a, u>> : s \in {0 - 1, 1}, a \in {0, 2}, u \in UncVals}

\* Fitted parameter vectors of the two formula models.
ScPenParams == {pen_initial_params, <<0, 0, 2>>, <<4, 4, 16>>}
ScLinParams == {lin_initial_params, <<0, 0, 0, 0, 0>>, <<1, 2, 0 - 2, 0, 0 - 1>>}

\* Weights of the network: every unit of the first layer weighs the three
\* inputs by the row w1 and has bias b1 less its index, every unit of the
\* second layer weighs the first layer's units by w2 and has its index as
\* bias, and the output layer weighs the second layer's units by w3.
NetRows == {<<1, 0, 0>>, <<1, 0 - 1, 0>>, <<0 - 1, 1, 1>>, <<0, 0, 1>>}
NetParams == [w1 : NetRows, b1 : {0 - 12, 1}, w2 : {0 - 1, 1}, w3 : {0 - 2, 2}]

ReLU(x) == Max(x, 0)

\* nn.Dropout is the identity unless the module is in training mode.
\* Variant: dropout that stays on after model.eval().
dropout_always(mode) == TRUE
dropout_active(mode) == mode = "train"

\* nn.Dropout(p) with p = num/den: a unit is zeroed where the mask is 0 and
\* the others are scaled by 1 / (1 - p).
Dropout(h, mask, num, den, mode) ==
    [i \in 1..NetWidth |->
        IF dropout_active(mode) THEN (mask[i] * h[i] * den) \div (den - num) ELSE h[i]]

\* The masks one forward pass may draw.
Masks(mode) ==
    IF dropout_active(mode) THEN [1..NetWidth -> {0, 1}] ELSE {[i \in 1..NetWidth |-> 1]}

\* self.network(x): Linear, ReLU, Dropout(0.2), Linear, ReLU, Dropout(0.1),
\* Linear, Sigmoid.
forward(p, x, m1, m2, mode) ==
    LET l1 == [i \in 1..NetWidth |->
                  ReLU(p.w1[1] * x[1] + p.w1[2] * x[2] + p.w1[3] * x[3] + p.b1 - i)]
        d1 == Dropout(l1, m1, 2, 10, mode)
        l2 == [j \in 1..NetWidth |-> ReLU(p.w2 * SumOver(d1, 1, NetWidth) + j)]
        d2 == Dropout(l2, m2, 1, 10, mode)
    IN  Sigmoid(p.w3 * SumOver(d2, 1, NetWidth))

\* The output of one scoring call of the model kind on feature f.
ScoreOf(kind, p, f, m1, m2, mode) ==
    IF kind = "penalty" THEN penalty_calibration(f[1], f[2], p[1], p[2], p[3])
    ELSE IF kind = "linear" THEN LinearProb(p, LinFeature(f[1], f[2], f[3]))
    ELSE forward(p, f, m1, m2, mode)

\* result.x of fit_penalty_calibrator / constrained_linear_calibrator
ScFitFormula ==
    /\ sc_pc = "fit"
    /\ sc_kind \in {"penalty", "linear"}
    /\ sc_params' \in (IF sc_kind = "penalty" THEN ScPenParams ELSE ScLinParams)
    /\ sc_fitted' = sc_params'
    /\ sc_pc' = "fitted"
    /\ UNCHANGED <<sc_kind, sc_mode, sc_epochs, sc_seen, sc_calls, sc_verdict>>

\* The training half of one epoch of train_calibrator: model.train(), then
\* per batch loss.backward() and optimizer.step(), which move the weights.
ScTrainPhase ==
    /\ sc_pc = "fit"
    /\ sc_kind = "learned"
    /\ sc_mode = "eval" \/ sc_epochs = 0
    /\ sc_epochs < MaxFitEpochs
    /\ sc_mode' = "train"
    /\ sc_params' \in NetParams
    /\ sc_epochs' = sc_epochs + 1
    /\ UNCHANGED <<sc_kind, sc_pc, sc_fitted, sc_seen, sc_calls, sc_verdict>>

\* The validation half: model.eval() and forward under torch.no_grad().
ScValPhase ==
    /\ sc_pc = "fit"
    /\ sc_kind = "learned"
    /\ sc_mode = "train"
    /\ sc_epochs > 0
    /\ sc_mode' = "eval"
    /\ UNCHANGED <<sc_kind, sc_pc, sc_epochs, sc_params, sc_fitted, sc_seen, sc_calls,
                   sc_verdict>>

\* After the loop: model.load_state_dict(torch.load(...)); return model.
\* The loop has run at least once (num_epochs=200) and its last statement
\* on the module was model.eval().
ScTrainReturn ==
    /\ sc_pc = "fit"
    /\ sc_kind = "learned"
    /\ sc_epochs > 0
    /\ sc_mode = "eval"
    /\ sc_params' \in NetParams
    /\ sc_fitted' = sc_params'
    /\ sc_pc' = "fitted"
    /\ UNCHANGED <<sc_kind, sc_mode, sc_epochs, sc_seen, sc_calls, sc_verdict>>

\* audit-calibrator.py: model = SimilarityCalibrator();
\* model.load_state_dict(torch.load(...)); model.eval()
ScAuditLoad ==
    /\ sc_pc = "fit"
    /\ sc_kind = "learned"
    /\ sc_epochs = 0
    /\ sc_params' \in NetParams
    /\ sc_fitted' = sc_params'
    /\ sc_mode' = "eval"
    /\ sc_pc' = "fitted"
    /\ UNCHANGED <<sc_kind, sc_epochs, sc_seen, sc_calls, sc_verdict>>

\* One scoring call: penalty_calibration(...), the sigmoid of the logit, or
\* model(features).item() under torch.no_grad().
ScScore ==
    /\ sc_pc = "fitted"
    /\ sc_calls < MaxScoreCalls
    /\ \E f \in ScFeatures, m1 \in Masks(sc_mode), m2 \in Masks(sc_mode) :
          sc_seen' = sc_seen \cup {<<f, ScoreOf(sc_kind, sc_params, f, m1, m2, sc_mode)>>}
    /\ sc_calls' = sc_calls + 1
    /\ UNCHANGED <<sc_kind, sc_pc, sc_mode, sc_epochs, sc_params, sc_fitted, sc_verdict>>

\* A model of each kind before its fit; a new nn.Module is in training mode.
\* The rows of the audit's verdict: similarity 0.85 and 0.40 (in 0.05) at
\* an age gap of 0 and of 80 years (in 10 years), uncertainty 0.
high_sim_young == <<17, 0, 0>>
high_sim_old == <<17, 8, 0>>
low_sim_young == <<8, 0, 0>>
low_sim_old == <<8, 8, 0>>

\* p1..p4 = model(row).item(), in millionths
audit_probs(p, mode) ==
    LET ones == [i \in 1..NetWidth |-> 1]
    IN  <<forward(p, high_sim_young, ones, ones, mode), forward(p, high_sim_old, ones, ones, mode),
          forward(p, low_sim_young, ones, ones, mode), forward(p, low_sim_old, ones, ones, mode)>>

\* age_sensitivity = abs(p1 - p2) + abs(p3 - p4)
\* Variant: the signed differences.
age_sensitivity_signed(pr) == (pr[1] - pr[2]) + (pr[3] - pr[4])
age_sensitivity(pr) == Abs(pr[1] - pr[2]) + Abs(pr[3] - pr[4])

\* if age_sensitivity < 0.05: the WARNING lines, else "Model uses age_diff"
audit_verdict(sens) == IF sens < 50000 THEN "insensitive" ELSE "uses_age_diff"

\* Section [5] of audit-calibrator.py on the model it loaded.
ScAuditVerdict ==
    /\ sc_pc = "fitted"
    /\ sc_kind = "learned"
    /\ sc_epochs = 0
    /\ sc_verdict = <<>>
    /\ LET pr == audit_probs(sc_params, sc_mode)
       IN  sc_verdict' = <<[p |-> pr, age_sensitivity |-> age_sensitivity(pr),
                            verdict |-> audit_verdict(age_sensitivity(pr))]>>
    /\ UNCHANGED <<sc_kind, sc_pc, sc_mode, sc_epochs, sc_params, sc_fitted, sc_seen, sc_calls>>

ScInit ==
    /\ sc_kind \in CalibrationModels
    /\ sc_pc = "fit"
    /\ sc_mode = "train"
    /\ sc_epochs = 0
    /\ sc_params \in (IF sc_kind = "penalty" THEN {pen_initial_params}
                      ELSE IF sc_kind = "linear" THEN {lin_initial_params}
                      ELSE NetParams)
    /\ sc_fitted = sc_params
    /\ sc_seen = {}
    /\ sc_calls = 0
    /\ sc_verdict = <<>>

ScIdle ==
    /\ sc_kind = "penalty"
    /\ sc_pc = "idle"
    /\ sc_mode = "eval"
    /\ sc_epochs = 0
    /\ sc_params = pen_initial_params
    /\ sc_fitted = pen_initial_params
    /\ sc_seen = {}
    /\ sc_calls = 0
    /\ sc_verdict = <<>>

----------------------------------------------------------------------------
(* fit_penalty_calibrator on a training set: the search follows the       *)
(* objective, evaluate_calibration(p, same_pairs, diff_pairs)              *)

\* A calibrated score n of the penalty model stands for n/40 (0.025).
PenScoreGe(n, num, den) == n * den >= num * 40
PenScoreLt(n, num, den) == n * den < num * 40

\* same_scores = penalty_calibration(same_pairs['similarity'],
\*                                   same_pairs['age_diff'], alpha, tau, M)
pen_apply(params, pairs) ==
    [i \in DOMAIN pairs |->
        penalty_calibration(pairs[i].similarity, pairs[i].age_diff,
                            params[1], params[2], params[3])]

\* The thresholds of np.linspace(0, 1, 1000), as indices k for k/999, at
\* which fnr or fpr can differ from its value at the threshold before:
\* the first threshold, and for every score n the first threshold above
\* it.  Between two of them no comparison score >= threshold changes, so
\* the running minimum of the loop over all 1000 thresholds is the least
\* value over these.
pen_thresholds(ss, ds) ==
    {0} \cup {k \in {(n * (PenGridN - 1)) \div 40 + 1 :
                         n \in {ss[i] : i \in DOMAIN ss} \cup {ds[i] : i \in DOMAIN ds}} :
                 k \in 0..(PenGridN - 1)}

\* The value evaluate_calibration returns, best_eer, as a numerator over
\* 2 * len(same) * len(diff): the least (fnr + fpr) / 2 over the
\* thresholds where it is below the initial best_eer = 1.0.
pen_objective(params, same_pairs, diff_pairs) ==
    LET ss == pen_apply(params, same_pairs)
        ds == pen_apply(params, diff_pairs)
        a == OrOne(Len(ss))
        b == OrOne(Len(ds))
        fn(k) == Len(ss) - Cardinality({i \in DOMAIN ss : PenScoreGe(ss[i], k, PenGridN - 1)})
        fp(k) == Len(ds) - Cardinality({i \in DOMAIN ds : PenScoreLt(ds[i], k, PenGridN - 1)})
        eers == {RateNum(fn(k), Len(ss)) * b + RateNum(fp(k), Len(ds)) * a :
                    k \in pen_thresholds(ss, ds)}
        least == CHOOSE v \in eers : \A w \in eers : v <= w
    IN  Min(least, 2 * a * b)

\* The points the line search may propose from x: any neighbour, feasible
\* or not, within the model range.
ObjTrials(x) == {t \in PenTrials : \A i \in 1..3 : Abs(t[i] - x[i]) <= 1}

\* Training rows: similarity 0.8, 0.5 or 0.0 at an age gap of 0, 40 or 80
\* years for the same-person pairs; similarity -0.5, 0.25, 0.45 or 0.5 for
\* the different-person pairs.
ObjSameRows == {[similarity |-> s, age_diff |-> a] : s \in {0, 20, 32}, a \in {0, 8, 16}}
ObjDiffRows == {[similarity |-> s, age_diff |-> a] : s \in {0 - 20, 10, 18, 20}, a \in {0}}

\* minimize(..., initial_params, method='L-BFGS-B', bounds=bounds): the
\* starting point is clipped to the box.
ObjStart ==
    /\ obj_pc = "start"
    /\ obj_x' = Project(pen_initial_params, pen_bounds)
    /\ obj_nit' = 0
    /\ obj_pc' = "iter"
    /\ UNCHANGED <<obj_same, obj_diff>>

\* One iteration of L-BFGS-B: the line search accepts a projected trial
\* point only where the objective is lower than at the current iterate.
ObjIterate ==
    /\ obj_pc = "iter"
    /\ obj_nit < PenMaxIter
    /\ LET current == pen_objective(obj_x, obj_same, obj_diff)
       IN  \E trial \in ObjTrials(obj_x) :
              /\ pen_objective(Project(trial, pen_bounds), obj_same, obj_diff) < current
              /\ obj_x' = Project(trial, pen_bounds)
    /\ obj_nit' = obj_nit + 1
    /\ UNCHANGED <<obj_same, obj_diff, obj_pc>>

\* alpha, tau, M = result.x; return alpha, tau, M
ObjReturn ==
    /\ obj_pc = "iter"
    /\ obj_pc' = "done"
    /\ UNCHANGED <<obj_same, obj_diff, obj_x, obj_nit>>

ObjInit ==
    /\ obj_same \in {<<p, q>> : p \in ObjSameRows, q \in ObjSameRows}
    /\ obj_diff \in {<<p>> : p \in ObjDiffRows}
    /\ obj_pc = "start"
    /\ obj_x = pen_initial_params
    /\ obj_nit = 0

ObjIdle ==
    /\ obj_same = <<>>
    /\ obj_diff = <<>>
    /\ obj_pc = "idle"
    /\ obj_x = pen_initial_params
    /\ obj_nit = 0

----------------------------------------------------------------------------
(* Synthetic same-person pairs: generate_synthetic_pairs                   *)
(* (train-penalty-calibrator.py) and generate_pair_data, lines 209-226     *)
(* (train-similarity-calibrator.py)                                        *)

\* Model bounds: the pool size, and the local windows that stand for the
\* program's 200 (penalty) and 100 (learned).
PoolMax == 4
PenWindow == 3
CalWindow == 2

Generators == {"penalty", "learned"}

local_window(kind) == IF kind = "penalty" THEN PenWindow ELSE CalWindow

\* if sim > 0.75 / if similarity > 0.7, similarity in thousandths; a
\* comparison with NaN is False.
high_similarity(kind, sim) ==
    /\ ~sim.nan
    /\ sim.val > (IF kind = "penalty" THEN 750 ELSE 700)

\* The most rows that may carry label 1: num_same, resp. num_pairs // 4.
positives_cap(kind, num) == IF kind = "penalty" THEN num ELSE num \div 4

\* for j in range(i + 1, min(i + 200, len(embeddings))): the end of the
\* range.  Variant: a range that runs to the end of the pool.
window_end_open(i, n, kind) == n
window_end(i, n, kind) == Min(i + local_window(kind), n)

\* The pairs the two nested loops visit, and their order.
ScanPairs(n, kind) ==
    {p \in (0..(n - 1)) \X (0..(n - 1)) : p[1] + 1 <= p[2] /\ p[2] < window_end(p[1], n, kind)}
PairBefore(p, q) == p[1] < q[1] \/ (p[1] = q[1] /\ p[2] < q[2])
FirstPair(S) ==
    IF S = {} THEN <<>> ELSE CHOOSE p \in S : \A q \in S : p = q \/ PairBefore(p, q)
NextPair(p, S) == FirstPair({q \in S : PairBefore(p, q)})

\* The row of pool indices i, j (from 0) and its similarity.
PairRow(pool, p) ==
    [i |-> p[1], j |-> p[2], similarity |-> cosine_similarity(pool[p[1] + 1], pool[p[2] + 1])]

\* Entry.  generate_pair_data first draws num_pairs random pairs with
\* random.sample(range(len(embeddings)), 2), which raises on a pool of
\* fewer than two.
GenStart ==
    /\ gen_pc = "start"
    /\ IF gen_kind = "learned" /\ gen_num > 0 /\ Len(gen_pool) < 2
       THEN gen_pc' = "crashed" /\ gen_at' = <<>>
       ELSE gen_pc' = "scan" /\ gen_at' = FirstPair(ScanPairs(Len(gen_pool), gen_kind))
    /\ UNCHANGED <<gen_kind, gen_pool, gen_num, gen_high, gen_pos>>

\* One pass of the inner loop body.  Penalty: a hit is appended to
\* same_pairs and the loops break once len(same_pairs) >= num_same.
\* Learned: a hit is appended to high_sim_pairs.
GenScan ==
    /\ gen_pc = "scan"
    /\ gen_at # <<>>
    /\ LET row == PairRow(gen_pool, gen_at)
           hit == high_similarity(gen_kind, row.similarity)
           next == NextPair(gen_at, ScanPairs(Len(gen_pool), gen_kind))
       IN  IF gen_kind = "penalty"
           THEN /\ gen_pos' = IF hit THEN gen_pos \cup {row} ELSE gen_pos
                /\ IF hit /\ Cardinality(gen_pos') >= gen_num
                   THEN gen_pc' = "done" /\ gen_at' = gen_at
                   ELSE gen_pc' = "scan" /\ gen_at' = next
                /\ UNCHANGED gen_high
           ELSE /\ gen_high' = IF hit THEN gen_high \cup {row} ELSE gen_high
                /\ gen_at' = next
                /\ UNCHANGED <<gen_pc, gen_pos>>
    /\ UNCHANGED <<gen_kind, gen_pool, gen_num>>

\* The loops run out.
GenScanEnd ==
    /\ gen_pc = "scan"
    /\ gen_at = <<>>
    /\ gen_pc' = IF gen_kind = "penalty" THEN "done" ELSE "sample"
    /\ UNCHANGED <<gen_kind, gen_pool, gen_num, gen_at, gen_high, gen_pos>>

\* num_same = min(num_pairs // 4, len(high_sim_pairs));
\* for feat, label in random.sample(high_sim_pairs, num_same): append
GenSample ==
    /\ gen_pc = "sample"
    /\ LET num_same == Min(positives_cap(gen_kind, gen_num), Cardinality(gen_high))
       IN  \E S \in SUBSET gen_high :
              /\ Cardinality(S) = num_same
              /\ gen_pos' = S
    /\ gen_pc' = "done"
    /\ UNCHANGED <<gen_kind, gen_pool, gen_num, gen_at, gen_high>>

\* Any pool of up to PoolMax embeddings; num_same >= 1 (the call passes
\* 200), num_pairs any count.
GenInit ==
    /\ gen_kind \in Generators
    /\ gen_pool \in UNION {[1..n -> Embeddings] : n \in 0..PoolMax}
    /\ gen_num \in (IF gen_kind = "penalty" THEN {1, 2} ELSE {0, 4, 9})
    /\ gen_pc = "start"
    /\ gen_at = <<>>
    /\ gen_high = {}
    /\ gen_pos = {}

GenIdle ==
    /\ gen_kind = "penalty"
    /\ gen_pool = <<>>
    /\ gen_num = 1
    /\ gen_pc = "idle"
    /\ gen_at = <<>>
    /\ gen_high = {}
    /\ gen_pos = {}

----------------------------------------------------------------------------
(* Collection loops: extract_embeddings_from_utkface (train-age-probe.py), *)
(* extract_embeddings_from_fairface (train-age-probe-fairface.py),         *)
(* generate_pair_data, lines 87-177 (train-similarity-calibrator.py) and   *)
(* extract_features_from_pairs (train-linear-calibrator.py)                *)

\* Model bounds: the directories or parquet files followed and the files or
\* rows in each.
MaxDirs == 2
MaxFiles == 2

Collectors == {"utkface", "fairface", "learned", "linear"}

\* The sample k of source d, and the placeholder of a failed extraction.
Sample(d, k) == <<d, k>>
None == <<0, 0>>

\* len(embeddings), total_processed, len(images): what the cap is compared
\* with.
collected(script, img, emb) == IF script = "learned" THEN Len(img) ELSE Len(emb)

\* The cap test on entering a source: 'if remaining <= 0: break' (utkface),
\* 'if max_images and len(images) >= max_images: break' (learned); fairface
\* tests per row, the pair loop has no cap.
cap_reached(script, max, n) == script \in {"utkface", "learned"} /\ n >= max

\* files[:remaining] / files[:max_images - len(images)]: the samples of a
\* source of the given size that the inner loop visits.
\* Variant: the whole source.
slice_len_whole(script, size, max, n) == size
slice_len(script, size, max, n) ==
    IF script \in {"utkface", "learned"} THEN Min(size, Max(max - n, 0)) ELSE size

\* [x for i in valid_indices]: the entries at the positions where
\* embeddings[i] is not None.
\* Variant: no entry is dropped.
KeepAll(list, emb) == list
RECURSIVE FilterValid(_, _)
FilterValid(list, emb) ==
    IF list = <<>> THEN <<>>
    ELSE LET rest == FilterValid(Tail(list), Tail(emb))
         IN  IF Head(emb) # None THEN <<Head(list)>> \o rest ELSE rest

\* Leaving the outer loop: generate_pair_data goes on to the extraction
\* over images, the others return.
ColLeave(script) == IF script = "learned" THEN "extract" ELSE "done"

\* The top of the outer loop: past the last source, or the cap test and the
\* slice.
ColSource ==
    /\ col_pc = "source"
    /\ LET n == collected(col_script, col_img, col_emb)
       IN  IF col_d > Len(col_src) \/ cap_reached(col_script, col_max, n)
           THEN /\ col_pc' = ColLeave(col_script)
                /\ col_k' = 1
                /\ UNCHANGED col_lim
           ELSE /\ col_pc' = "sample"
                /\ col_k' = 1
                /\ col_lim' = slice_len(col_script, col_src[col_d], col_max, n)
    /\ UNCHANGED <<col_script, col_max, col_src, col_d, col_img, col_emb, col_lab>>

\* The top of the inner loop.  fairface: 'if max_samples and
\* total_processed >= max_samples: break', and again after the loop.  A
\* sample either fails before anything is appended (unparsable name, age
\* above 100, unreadable image, a raise in the session) or reaches the
\* first append: embeddings / features / images.
ColSample ==
    /\ col_pc = "sample"
    /\ LET full == col_script = "fairface" /\ Len(col_emb) >= col_max
       IN  IF full
           THEN /\ col_pc' = "done"
                /\ UNCHANGED <<col_d, col_k, col_img, col_emb>>
           ELSE IF col_k > col_lim
           THEN /\ col_pc' = "source"
                /\ col_d' = col_d + 1
                /\ UNCHANGED <<col_k, col_img, col_emb>>
           ELSE \/ /\ col_k' = col_k + 1
                   /\ UNCHANGED <<col_pc, col_d, col_img, col_emb>>
                \/ /\ col_pc' = "half"
                   /\ IF col_script = "learned"
                      THEN col_img' = Append(col_img, Sample(col_d, col_k)) /\ UNCHANGED col_emb
                      ELSE col_emb' = Append(col_emb, Sample(col_d, col_k)) /\ UNCHANGED col_img
                   /\ UNCHANGED <<col_d, col_k>>
    /\ UNCHANGED <<col_script, col_max, col_src, col_lim, col_lab>>

\* The statement after the first append: ages.append(age) /
\* labels.append(label), which cannot fail; in generate_pair_data the list
\* ages of line 115, which is not read again and is left out.
ColSecondAppend ==
    /\ col_pc = "half"
    /\ col_lab' = IF col_script = "learned" THEN col_lab
                  ELSE Append(col_lab, Sample(col_d, col_k))
    /\ col_k' = col_k + 1
    /\ col_pc' = "sample"
    /\ UNCHANGED <<col_script, col_max, col_src, col_d, col_lim, col_img, col_emb>>

\* generate_pair_data, lines 132-168, one image: the three appends of the
\* values computed from it, or in the except branch None three times.
ColExtract ==
    /\ col_pc = "extract"
    /\ IF col_k > Len(col_img)
       THEN /\ col_pc' = "filter"
            /\ UNCHANGED <<col_k, col_emb, col_lab>>
       ELSE /\ \E v \in {col_img[col_k], None} :
                 /\ col_emb' = Append(col_emb, v)
                 /\ col_lab' = Append(col_lab, v)
            /\ col_k' = col_k + 1
            /\ UNCHANGED col_pc
    /\ UNCHANGED <<col_script, col_max, col_src, col_d, col_lim, col_img>>

\* generate_pair_data, lines 171-175: the failed extractions are dropped
\* from embeddings, predicted_ages, uncertainties and images.
ColFilter ==
    /\ col_pc = "filter"
    /\ col_lab' = FilterValid(col_lab, col_emb)
    /\ col_img' = FilterValid(col_img, col_emb)
    /\ col_emb' = FilterValid(col_emb, col_emb)
    /\ col_pc' = "done"
    /\ UNCHANGED <<col_script, col_max, col_src, col_d, col_k, col_lim>>

\* Any contents of up to MaxDirs sources; the pair loop has one source and
\* no cap.  The callers pass max_samples=500, 5000 and max_images=300: the
\* cap is at least 1.
ColInit ==
    /\ col_script \in Collectors
    /\ col_src \in UNION {[1..n -> 0..MaxFiles] :
                            n \in (IF col_script = "linear" THEN {1} ELSE 1..MaxDirs)}
    /\ col_max \in (IF col_script = "linear" THEN {1} ELSE 1..(MaxFiles + 1))
    /\ col_pc = "source"
    /\ col_d = 1
    /\ col_k = 1
    /\ col_lim = 0
    /\ col_img = <<>>
    /\ col_emb = <<>>
    /\ col_lab = <<>>

ColIdle ==
    /\ col_script = "linear"
    /\ col_src = <<>>
    /\ col_max = 1
    /\ col_pc = "idle"
    /\ col_d = 1
    /\ col_k = 1
    /\ col_lim = 0
    /\ col_img = <<>>
    /\ col_emb = <<>>
    /\ col_lab = <<>>

----------------------------------------------------------------------------
(* train_age_probe of train-age-probe.py and of train-age-probe-fairface.py *)
(* as two processes in one working directory                               *)

\* Model bound: the epochs each trainer runs.
MaxPairEpochs == 2

Trainers == {"utkface", "fairface"}

\* One epoch of trainer t and the early-stopping block: on improvement
\* torch.save(model.state_dict(), 'age_probe_best.pth') starts writing.
\* The validation losses followed here are numbers.
PairEpoch(t) ==
    /\ pp_pc[t] = "loop"
    /\ pp_epoch[t] < MaxPairEpochs
    /\ \E val_loss \in {Num(v) : v \in LossNums} :
          IF improves(val_loss, pp_best[t])
          THEN /\ pp_best' = [pp_best EXCEPT ![t] = val_loss]
               /\ pp_pat' = [pp_pat EXCEPT ![t] = 0]
               /\ pp_file' = File("partial", Snapshot(t, pp_epoch[t] + 1))
               /\ pp_pc' = [pp_pc EXCEPT ![t] = "save"]
          ELSE /\ pp_pat' = [pp_pat EXCEPT ![t] = pp_pat[t] + 1]
               /\ pp_pc' = [pp_pc EXCEPT ![t] =
                               IF stagnant(pp_pat[t] + 1, "probe") THEN "load" ELSE "loop"]
               /\ UNCHANGED <<pp_best, pp_file>>
    /\ pp_epoch' = [pp_epoch EXCEPT ![t] = pp_epoch[t] + 1]
    /\ pp_params' = [pp_params EXCEPT ![t] = Snapshot(t, pp_epoch[t] + 1)]
    /\ UNCHANGED pp_model

\* torch.save of trainer t returns: the file holds its state_dict.
PairSaved(t) ==
    /\ pp_pc[t] = "save"
    /\ pp_file' = File("complete", pp_params[t])
    /\ pp_pc' = [pp_pc EXCEPT ![t] = "loop"]
    /\ UNCHANGED <<pp_epoch, pp_best, pp_pat, pp_params, pp_model>>

\* range(num_epochs) is exhausted.
PairLoopEnd(t) ==
    /\ pp_pc[t] = "loop"
    /\ pp_epoch[t] = MaxPairEpochs
    /\ pp_pc' = [pp_pc EXCEPT ![t] = "load"]
    /\ UNCHANGED <<pp_epoch, pp_best, pp_pat, pp_params, pp_model, pp_file>>

\* model.load_state_dict(torch.load('age_probe_best.pth')); return model.
\* A missing or half-written file raises.
PairLoad(t) ==
    /\ pp_pc[t] = "load"
    /\ IF pp_file.st = "complete"
       THEN /\ pp_params' = [pp_params EXCEPT ![t] = pp_file.snap]
            /\ pp_model' = [pp_model EXCEPT ![t] = pp_file.snap]
            /\ pp_pc' = [pp_pc EXCEPT ![t] = "done"]
       ELSE /\ pp_pc' = [pp_pc EXCEPT ![t] = "failed"]
            /\ UNCHANGED <<pp_params, pp_model>>
    /\ UNCHANGED <<pp_epoch, pp_best, pp_pat, pp_file>>

\* Both trainers at the top of their loops, no checkpoint in the directory.
PairInit ==
    /\ pp_pc = [t \in Trainers |-> "loop"]
    /\ pp_epoch = [t \in Trainers |-> 0]
    /\ pp_best = [t \in Trainers |-> Inf]
    /\ pp_pat = [t \in Trainers |-> 0]
    /\ pp_params = [t \in Trainers |-> Snapshot(t, 0)]
    /\ pp_model = [t \in Trainers |-> NoSnapshot]
    /\ pp_file = AbsentFile

PairIdle ==
    /\ pp_pc = [t \in Trainers |-> "idle"]
    /\ pp_epoch = [t \in Trainers |-> 0]
    /\ pp_best = [t \in Trainers |-> Inf]
    /\ pp_pat = [t \in Trainers |-> 0]
    /\ pp_params = [t \in Trainers |-> Snapshot(t, 0)]
    /\ pp_model = [t \in Trainers |-> NoSnapshot]
    /\ pp_file = AbsentFile

----------------------------------------------------------------------------
(* Specifications *)

\* The constrained linear fit.
Init == LinInit /\ PenIdle /\ EvalIdle /\ AsmIdle /\ TrIdle /\ FitsIdle /\ ExIdle /\ ScIdle /\ ObjIdle /\ GenIdle /\ ColIdle /\ PairIdle
Next ==
    \/ LinStart /\ UNCHANGED <<penVars, evalVars, asmVars, trVars, fitVars, exVars, scVars, objVars, genVars, colVars, ppVars>>
    \/ LinIterate /\ UNCHANGED <<penVars, evalVars, asmVars, trVars, fitVars, exVars, scVars, objVars, genVars, colVars, ppVars>>
    \/ LinReturn /\ UNCHANGED <<penVars, evalVars, asmVars, trVars, fitVars, exVars, scVars, objVars, genVars, colVars, ppVars>>
Spec == Init /\ [][Next]_vars

\* The penalty fit and scoring with the fitted parameters.
InitPenalty == LinIdle /\ PenInit /\ EvalIdle /\ AsmIdle /\ TrIdle /\ FitsIdle /\ ExIdle /\ ScIdle /\ ObjIdle /\ GenIdle /\ ColIdle /\ PairIdle
NextPenalty ==
    \/ PenStart /\ UNCHANGED <<linVars, evalVars, asmVars, trVars, fitVars, exVars, scVars, objVars, genVars, colVars, ppVars>>
    \/ PenIterate /\ UNCHANGED <<linVars, evalVars, asmVars, trVars, fitVars, exVars, scVars, objVars, genVars, colVars, ppVars>>
    \/ PenReturn /\ UNCHANGED <<linVars, evalVars, asmVars, trVars, fitVars, exVars, scVars, objVars, genVars, colVars, ppVars>>
    \/ PenScore /\ UNCHANGED <<linVars, evalVars, asmVars, trVars, fitVars, exVars, scVars, objVars, genVars, colVars, ppVars>>
SpecPenalty == InitPenalty /\ [][NextPenalty]_vars

\* The two evaluators on one evaluation set.
InitEval == LinIdle /\ PenIdle /\ EvalInit /\ AsmIdle /\ TrIdle /\ FitsIdle /\ ExIdle /\ ScIdle /\ ObjIdle /\ GenIdle /\ ColIdle /\ PairIdle
NextEval ==
    \/ AddSame /\ UNCHANGED <<linVars, penVars, asmVars, trVars, fitVars, exVars, scVars, objVars, genVars, colVars, ppVars>>
    \/ AddDiff /\ UNCHANGED <<linVars, penVars, asmVars, trVars, fitVars, exVars, scVars, objVars, genVars, colVars, ppVars>>
    \/ EvaluateLinear /\ UNCHANGED <<linVars, penVars, asmVars, trVars, fitVars, exVars, scVars, objVars, genVars, colVars, ppVars>>
    \/ EvaluatePenalty /\ UNCHANGED <<linVars, penVars, asmVars, trVars, fitVars, exVars, scVars, objVars, genVars, colVars, ppVars>>
SpecEval == InitEval /\ [][NextEval]_vars

\* Feature assembly.
InitAssemble == LinIdle /\ PenIdle /\ EvalIdle /\ AsmInit /\ TrIdle /\ FitsIdle /\ ExIdle /\ ScIdle /\ ObjIdle /\ GenIdle /\ ColIdle /\ PairIdle
NextAssemble ==
    \/ ExtractPair /\ UNCHANGED <<linVars, penVars, evalVars, trVars, fitVars, exVars, scVars, objVars, genVars, colVars, ppVars>>
    \/ GenRandomPair /\ UNCHANGED <<linVars, penVars, evalVars, trVars, fitVars, exVars, scVars, objVars, genVars, colVars, ppVars>>
    \/ GenHighSimPair /\ UNCHANGED <<linVars, penVars, evalVars, trVars, fitVars, exVars, scVars, objVars, genVars, colVars, ppVars>>
SpecAssemble == InitAssemble /\ [][NextAssemble]_vars

\* One training run, which may be interrupted.
InitTrain == LinIdle /\ PenIdle /\ EvalIdle /\ AsmIdle /\ TrInit /\ FitsIdle /\ ExIdle /\ ScIdle /\ ObjIdle /\ GenIdle /\ ColIdle /\ PairIdle
NextTrain ==
    \/ TrainEpoch /\ UNCHANGED <<linVars, penVars, evalVars, asmVars, fitVars, exVars, scVars, objVars, genVars, colVars, ppVars>>
    \/ TrainSaved /\ UNCHANGED <<linVars, penVars, evalVars, asmVars, fitVars, exVars, scVars, objVars, genVars, colVars, ppVars>>
    \/ TrainLoopEnd /\ UNCHANGED <<linVars, penVars, evalVars, asmVars, fitVars, exVars, scVars, objVars, genVars, colVars, ppVars>>
    \/ TrainLoad /\ UNCHANGED <<linVars, penVars, evalVars, asmVars, fitVars, exVars, scVars, objVars, genVars, colVars, ppVars>>
    \/ TrainKill /\ UNCHANGED <<linVars, penVars, evalVars, asmVars, fitVars, exVars, scVars, objVars, genVars, colVars, ppVars>>
SpecTrain == InitTrain /\ [][NextTrain]_vars

\* The loop is sequential code of one process: while it is not interrupted
\* its next statement runs.
TrainStep ==
    /\ TrainEpoch \/ TrainSaved \/ TrainLoopEnd \/ TrainLoad
    /\ UNCHANGED <<linVars, penVars, evalVars, asmVars, fitVars, exVars, scVars, objVars, genVars, colVars, ppVars>>
SpecTrainFair == SpecTrain /\ WF_vars(TrainStep)

\* The three fitting scripts as three processes, interleaved.
InitFits == LinIdle /\ PenIdle /\ EvalIdle /\ AsmIdle /\ TrIdle /\ FitsInit /\ ExIdle /\ ScIdle /\ ObjIdle /\ GenIdle /\ ColIdle /\ PairIdle
NextFits ==
    \/ (\E f \in Fits : FitLoadModels(f)) /\ UNCHANGED <<linVars, penVars, evalVars, asmVars, trVars, exVars, scVars, objVars, genVars, colVars, ppVars>>
    \/ LearnedEpoch /\ UNCHANGED <<linVars, penVars, evalVars, asmVars, trVars, exVars, scVars, objVars, genVars, colVars, ppVars>>
    \/ LearnedLoadBest /\ UNCHANGED <<linVars, penVars, evalVars, asmVars, trVars, exVars, scVars, objVars, genVars, colVars, ppVars>>
    \/ LearnedExport /\ UNCHANGED <<linVars, penVars, evalVars, asmVars, trVars, exVars, scVars, objVars, genVars, colVars, ppVars>>
    \/ (\E f \in Fits : BoundedFit(f)) /\ UNCHANGED <<linVars, penVars, evalVars, asmVars, trVars, exVars, scVars, objVars, genVars, colVars, ppVars>>
    \/ LinearSave /\ UNCHANGED <<linVars, penVars, evalVars, asmVars, trVars, exVars, scVars, objVars, genVars, colVars, ppVars>>
    \/ PenaltySave /\ UNCHANGED <<linVars, penVars, evalVars, asmVars, trVars, exVars, scVars, objVars, genVars, colVars, ppVars>>
    \/ PenaltyPlot /\ UNCHANGED <<linVars, penVars, evalVars, asmVars, trVars, exVars, scVars, objVars, genVars, colVars, ppVars>>
SpecFits == InitFits /\ [][NextFits]_vars

\* One run of one entry point, from its first statement.
InitEntry ==
    LinIdle /\ PenIdle /\ EvalIdle /\ AsmIdle /\ TrIdle /\ FitsIdle /\ ExInit /\ ScIdle /\ ObjIdle /\ GenIdle /\ ColIdle /\ PairIdle
NextEntry ==
    \/ EntryLoadModels /\ UNCHANGED <<linVars, penVars, evalVars, asmVars, trVars, fitVars, scVars, objVars, genVars, colVars, ppVars>>
    \/ EntryOpenDataset /\ UNCHANGED <<linVars, penVars, evalVars, asmVars, trVars, fitVars, scVars, objVars, genVars, colVars, ppVars>>
    \/ ExtractSample /\ UNCHANGED <<linVars, penVars, evalVars, asmVars, trVars, fitVars, scVars, objVars, genVars, colVars, ppVars>>
    \/ ExtractEnd /\ UNCHANGED <<linVars, penVars, evalVars, asmVars, trVars, fitVars, scVars, objVars, genVars, colVars, ppVars>>
    \/ EntryUseCorpus /\ UNCHANGED <<linVars, penVars, evalVars, asmVars, trVars, fitVars, scVars, objVars, genVars, colVars, ppVars>>
SpecEntry == InitEntry /\ [][NextEntry]_vars

\* Fitting one model and scoring with it.
InitScore ==
    LinIdle /\ PenIdle /\ EvalIdle /\ AsmIdle /\ TrIdle /\ FitsIdle /\ ExIdle /\ ScInit /\ ObjIdle /\ GenIdle /\ ColIdle /\ PairIdle
NextScore ==
    \/ ScFitFormula /\ UNCHANGED <<linVars, penVars, evalVars, asmVars, trVars, fitVars, exVars, objVars, genVars, colVars, ppVars>>
    \/ ScTrainPhase /\ UNCHANGED <<linVars, penVars, evalVars, asmVars, trVars, fitVars, exVars, objVars, genVars, colVars, ppVars>>
    \/ ScValPhase /\ UNCHANGED <<linVars, penVars, evalVars, asmVars, trVars, fitVars, exVars, objVars, genVars, colVars, ppVars>>
    \/ ScTrainReturn /\ UNCHANGED <<linVars, penVars, evalVars, asmVars, trVars, fitVars, exVars, objVars, genVars, colVars, ppVars>>
    \/ ScAuditLoad /\ UNCHANGED <<linVars, penVars, evalVars, asmVars, trVars, fitVars, exVars, objVars, genVars, colVars, ppVars>>
    \/ ScScore /\ UNCHANGED <<linVars, penVars, evalVars, asmVars, trVars, fitVars, exVars, objVars, genVars, colVars, ppVars>>
    \/ ScAuditVerdict /\ UNCHANGED <<linVars, penVars, evalVars, asmVars, trVars, fitVars, exVars, objVars, genVars, colVars, ppVars>>
SpecScore == InitScore /\ [][NextScore]_vars

\* The penalty fit on one training set.
InitObjective ==
    LinIdle /\ PenIdle /\ EvalIdle /\ AsmIdle /\ TrIdle /\ FitsIdle /\ ExIdle /\ ScIdle /\ ObjInit /\ GenIdle /\ ColIdle /\ PairIdle
NextObjective ==
    \/ ObjStart /\ UNCHANGED <<linVars, penVars, evalVars, asmVars, trVars, fitVars, exVars, scVars, genVars, colVars, ppVars>>
    \/ ObjIterate /\ UNCHANGED <<linVars, penVars, evalVars, asmVars, trVars, fitVars, exVars, scVars, genVars, colVars, ppVars>>
    \/ ObjReturn /\ UNCHANGED <<linVars, penVars, evalVars, asmVars, trVars, fitVars, exVars, scVars, genVars, colVars, ppVars>>
SpecObjective == InitObjective /\ [][NextObjective]_vars

\* One run of one generator of synthetic same-person pairs.
InitGenerate ==
    LinIdle /\ PenIdle /\ EvalIdle /\ AsmIdle /\ TrIdle /\ FitsIdle /\ ExIdle /\ ScIdle /\ ObjIdle /\ GenInit /\ ColIdle /\ PairIdle
NextGenerate ==
    \/ GenStart /\ UNCHANGED <<linVars, penVars, evalVars, asmVars, trVars, fitVars, exVars, scVars, objVars, colVars, ppVars>>
    \/ GenScan /\ UNCHANGED <<linVars, penVars, evalVars, asmVars, trVars, fitVars, exVars, scVars, objVars, colVars, ppVars>>
    \/ GenScanEnd /\ UNCHANGED <<linVars, penVars, evalVars, asmVars, trVars, fitVars, exVars, scVars, objVars, colVars, ppVars>>
    \/ GenSample /\ UNCHANGED <<linVars, penVars, evalVars, asmVars, trVars, fitVars, exVars, scVars, objVars, colVars, ppVars>>
SpecGenerate == InitGenerate /\ [][NextGenerate]_vars

\* One run of one collection loop.
InitCollect ==
    LinIdle /\ PenIdle /\ EvalIdle /\ AsmIdle /\ TrIdle /\ FitsIdle /\ ExIdle /\ ScIdle /\ ObjIdle /\ GenIdle /\ ColInit /\ PairIdle
NextCollect ==
    \/ ColSource /\ UNCHANGED <<linVars, penVars, evalVars, asmVars, trVars, fitVars, exVars, scVars, objVars, genVars, ppVars>>
    \/ ColSample /\ UNCHANGED <<linVars, penVars, evalVars, asmVars, trVars, fitVars, exVars, scVars, objVars, genVars, ppVars>>
    \/ ColSecondAppend /\ UNCHANGED <<linVars, penVars, evalVars, asmVars, trVars, fitVars, exVars, scVars, objVars, genVars, ppVars>>
    \/ ColExtract /\ UNCHANGED <<linVars, penVars, evalVars, asmVars, trVars, fitVars, exVars, scVars, objVars, genVars, ppVars>>
    \/ ColFilter /\ UNCHANGED <<linVars, penVars, evalVars, asmVars, trVars, fitVars, exVars, scVars, objVars, genVars, ppVars>>
SpecCollect == InitCollect /\ [][NextCollect]_vars

\* The two age-probe trainers, interleaved.
InitTrainers ==
    LinIdle /\ PenIdle /\ EvalIdle /\ AsmIdle /\ TrIdle /\ FitsIdle /\ ExIdle /\ ScIdle /\ ObjIdle /\ GenIdle /\ ColIdle /\ PairInit
NextTrainers ==
    \/ (\E t \in Trainers : PairEpoch(t)) /\ UNCHANGED <<linVars, penVars, evalVars, asmVars, trVars, fitVars, exVars, scVars, objVars, genVars, colVars>>
    \/ (\E t \in Trainers : PairSaved(t)) /\ UNCHANGED <<linVars, penVars, evalVars, asmVars, trVars, fitVars, exVars, scVars, objVars, genVars, colVars>>
    \/ (\E t \in Trainers : PairLoopEnd(t)) /\ UNCHANGED <<linVars, penVars, evalVars, asmVars, trVars, fitVars, exVars, scVars, objVars, genVars, colVars>>
    \/ (\E t \in Trainers : PairLoad(t)) /\ UNCHANGED <<linVars, penVars, evalVars, asmVars, trVars, fitVars, exVars, scVars, objVars, genVars, colVars>>
SpecTrainers == InitTrainers /\ [][NextTrainers]_vars

----------------------------------------------------------------------------
(* Properties *)

\* C1: every iterate of the constrained linear fit, and the parameter
\* vector it returns, has w_sim >= 0, w_age <= 0, w_age2 <= 0 and
\* w_unc <= 0, and the search starts at (0, 1, -0.01, -0.0001, -0.01).
C1_LinearBoxHolds ==
    /\ lin_pc \in {"iter", "done"} =>
          (lin_x[2] >= 0 /\ lin_x[3] <= 0 /\ lin_x[4] <= 0 /\ lin_x[5] <= 0)
    /\ (lin_pc = "iter" /\ lin_nit = 0) => lin_x = <<0, 1, 0 - 1, 0 - 1, 0 - 1>>

\* A returned vector whose last trial point asked for a negative similarity
\* weight (and a stronger age penalty), with a non-zero bias.
C1_Witness ==
    /\ lin_pc = "done"
    /\ lin_nit > 0
    /\ lin_trial[2] < 0 /\ lin_x[2] = 0
    /\ lin_trial[3] < 0 /\ lin_x[3] = lin_trial[3]
    /\ lin_x[1] < 0

\* C2: with the returned parameters the probability is non-decreasing in
\* similarity and non-increasing in ageDiff (ageDiffSquared = ageDiff^2),
\* the other features being equal.
C2_LinearMonotone ==
    lin_pc = "done" =>
        \A f \in LinFeatures, g \in LinFeatures :
            /\ (f[2] = g[2] /\ f[4] = g[4] /\ f[1] <= g[1]) =>
                  LinearProb(lin_x, f) <= LinearProb(lin_x, g)
            /\ (f[1] = g[1] /\ f[4] = g[4] /\ f[2] <= g[2]) =>
                  LinearProb(lin_x, f) >= LinearProb(lin_x, g)

\* Returned parameters under which a larger age gap strictly lowers the
\* probability and a larger similarity strictly raises it.
C2_Witness ==
    /\ lin_pc = "done"
    /\ lin_nit > 0
    /\ \E f \in LinFeatures, g \in LinFeatures :
          /\ f[1] = g[1] /\ f[4] = g[4] /\ f[2] < g[2]
          /\ LinearProb(lin_x, f) > LinearProb(lin_x, g)
    /\ \E f \in LinFeatures, g \in LinFeatures :
          /\ f[2] = g[2] /\ f[4] = g[4] /\ f[1] < g[1]
          /\ LinearProb(lin_x, f) < LinearProb(lin_x, g)

\* C3: the calibrated score equals s when ageDiff <= tau and s - alpha*M
\* when ageDiff >= tau + M, for the fitted parameters.
C3_PenaltyEndpoints ==
    pen_out # <<>> =>
        LET o == pen_out[1]
        IN  /\ o.age_diff <= pen_x[2] => o.score = o.s
            /\ o.age_diff >= pen_x[2] + pen_x[3] => o.score = o.s - pen_x[1] * pen_x[3]

\* A pair scored beyond tau + M with alpha > 0 and tau > 0: the full penalty.
C3_Witness ==
    /\ pen_out # <<>>
    /\ pen_x[1] > 0 /\ pen_x[2] > 0
    /\ pen_out[1].age_diff > pen_x[2] + pen_x[3]
    /\ pen_out[1].score < pen_out[1].s

\* C4: the penalty search starts at (0.005, 5, 30) and every iterate and
\* the returned (alpha, tau, M) lie in [0, 0.02] x [0, 20] x [10, 80].
C4_PenaltyBoxHolds ==
    /\ pen_pc \in {"iter", "done"} =>
          /\ 0 <= pen_x[1] /\ pen_x[1] <= 4
          /\ 0 <= pen_x[2] /\ pen_x[2] <= 4
          /\ 2 <= pen_x[3] /\ pen_x[3] <= 16
    /\ (pen_pc = "iter" /\ pen_nit = 0) => pen_x = <<1, 1, 6>>

\* Returned parameters whose last trial point left the box above in alpha
\* and tau and below in M.
C4_Witness ==
    /\ pen_pc = "done"
    /\ pen_nit > 0
    /\ pen_trial[1] > 4 /\ pen_x[1] = 4
    /\ pen_trial[2] > 4 /\ pen_x[2] = 4
    /\ pen_trial[3] < 2 /\ pen_x[3] = 2

\* Error rates of the evaluation set at threshold num/den, from their
\* definitions: a pair is accepted when its score is >= the threshold.
NSame == Len(same_scores)
NDiff == Len(diff_scores)
Accepted(scores, num, den) == {i \in 1..Len(scores) : scores[i] * den >= num * 10}
Rejected(scores, num, den) == {i \in 1..Len(scores) : scores[i] * den < num * 10}
RefTP(num, den) == Cardinality(Accepted(same_scores, num, den))
RefFN(num, den) == Cardinality(Rejected(same_scores, num, den))
RefFP(num, den) == Cardinality(Accepted(diff_scores, num, den))

\* |FPR - FNR| and FPR + FNR at threshold num/den, both times NSame * NDiff.
RefDev(num, den) == Abs(RefFP(num, den) * NSame - RefFN(num, den) * NDiff)
RefErrSum(num, den) == RefFP(num, den) * NSame + RefFN(num, den) * NDiff

LeastOf(S) == CHOOSE d \in S : \A e \in S : d <= e

\* eer is (FPR + FNR)/2 at a threshold k/(n-1) of the n-point grid on [0,1]
\* where |FPR - FNR| is least over the grid, and lies in [0,1].
EerAtGridMinimum(eer, n) ==
    LET least == LeastOf({RefDev(k, n - 1) : k \in 0..(n - 1)})
    IN  /\ RatLe(<<0, 1>>, eer) /\ RatLe(eer, <<1, 1>>)
        /\ \E k \in 0..(n - 1) :
              /\ RefDev(k, n - 1) = least
              /\ RatEq(eer, <<RefErrSum(k, n - 1), 2 * NSame * NDiff>>)

\* C5: the EER reported by evaluate_calibrator lies in [0,1] and is
\* (FPR + FNR)/2 at a threshold of the 1000-point grid that minimises
\* |FPR - FNR|.  (The rates exist when both classes are non-empty.)
C5_LinearEerAtMinimum ==
    lin_metrics # <<>> =>
        /\ RatLe(<<0, 1>>, lin_metrics[1].eer) /\ RatLe(lin_metrics[1].eer, <<1, 1>>)
        /\ (NSame > 0 /\ NDiff > 0) => EerAtGridMinimum(lin_metrics[1].eer, 1000)

\* An evaluation whose EER is strictly between 0 and 1/2.
C5_Witness ==
    /\ lin_metrics # <<>>
    /\ NSame > 0 /\ NDiff > 0
    /\ RatLt(<<0, 1>>, lin_metrics[1].eer)
    /\ RatLt(lin_metrics[1].eer, <<1, 2>>)

\* C6: the EER returned by evaluate_calibration lies in [0,1] and is
\* (FPR + FNR)/2 at a grid threshold where |FPR - FNR| is least.
C6_PenaltyEerAtMinimum ==
    (pen_metrics # <<>> /\ NSame > 0 /\ NDiff > 0) =>
        EerAtGridMinimum(pen_metrics[1].eer, 1000)

\* A perfect separator: every same-pair score above every different-pair
\* score, with a threshold of the 1000-point grid between them.
PerfectSeparator ==
    /\ NSame > 0 /\ NDiff > 0
    /\ \E k \in 0..999 : RefFP(k, 999) = 0 /\ RefFN(k, 999) = 0

\* C7: the AUC reported by evaluate_calibrator lies in [0,1] and is 1 for
\* a perfect separator.
C7_AucOfSeparator ==
    lin_metrics # <<>> =>
        /\ RatLe(<<0, 1>>, lin_metrics[1].auc) /\ RatLe(lin_metrics[1].auc, <<1, 1>>)
        /\ PerfectSeparator => RatEq(lin_metrics[1].auc, <<1, 1>>)

\* FPR >= 1e-3 at the j-th threshold of the scan from 1 down to 0 in 10000
\* steps.
RefFarReached(j) == NDiff > 0 /\ RefFP(9999 - j, 9999) * 1000 >= NDiff

\* C8: the TAR of evaluate_calibration is the TPR at the first threshold,
\* scanning from the highest, whose FPR >= 1e-3, and 0 when no scanned
\* threshold reaches it.  (The TPR exists when there are same-person pairs.)
C8_PenaltyTarAtFar ==
    pen_metrics # <<>> =>
        IF \E j \in 0..9999 : RefFarReached(j)
        THEN NSame > 0 =>
                \E j \in 0..9999 :
                    /\ RefFarReached(j)
                    /\ \A i \in 0..(j - 1) : ~RefFarReached(i)
                    /\ RatEq(pen_metrics[1].tar, <<RefTP(9999 - j, 9999), NSame>>)
        ELSE RatEq(pen_metrics[1].tar, <<0, 1>>)

\* An evaluation in which the target FAR is reached below the top of the
\* scan and only part of the same-person pairs is accepted there.
C8_Witness ==
    /\ pen_metrics # <<>>
    /\ NSame > 0 /\ NDiff > 0
    /\ ~RefFarReached(0)
    /\ RatLt(<<0, 1>>, pen_metrics[1].tar)
    /\ RatLt(pen_metrics[1].tar, <<1, 1>>)

\* C9: on one evaluation set with scores in [0,1] the two evaluators
\* report the same EER and the same TAR@FAR=1e-3.
C9_EvaluatorsAgree ==
    (lin_metrics # <<>> /\ pen_metrics # <<>> /\ NSame > 0 /\ NDiff > 0) =>
        /\ RatEq(lin_metrics[1].eer, pen_metrics[1].eer)
        /\ RatEq(lin_metrics[1].tar, pen_metrics[1].tar)

\* C10: every emitted feature row has ageDiff = |age1 - age2| >= 0,
\* ageDiffSquared = ageDiff^2 (linear rows), uncertainty = (unc1 + unc2)/2,
\* and is the row the two faces give in the other order.
C10_FeatureAssembly ==
    asm_out # <<>> =>
        LET r == asm_out[1]
            f1 == r.in[1]
            f2 == r.in[2]
            ad == r.feat[2]
            unc == r.feat[Len(r.feat)]
        IN  /\ ad >= 0
            /\ ad = Max(f1.age, f2.age) - Min(f1.age, f2.age)
            /\ 2 * unc = f1.unc + f2.unc
            /\ r.by = "linear" => r.feat[3] = ad * ad
            /\ r.feat = (IF r.by = "linear" THEN linear_feature_vec(f2, f1)
                                           ELSE learned_feature_vec(f2, f1))

\* A linear row from two faces that differ in embedding, age (the first
\* the younger) and uncertainty.
C10_Witness ==
    /\ asm_out # <<>>
    /\ asm_out[1].by = "linear"
    /\ asm_out[1].in[1].age < asm_out[1].in[2].age
    /\ asm_out[1].in[1].unc # asm_out[1].in[2].unc
    /\ asm_out[1].in[1].emb # asm_out[1].in[2].emb
    /\ asm_out[1].feat[2] > 0

\* C11: for every embedding e, the all-zero vector included, the similarity
\* the feature assembly computes for the pair (e, e) is 1.0 (here: a number
\* within one unit of the last fixed-point digit of 1.000).
C11_SelfSimilarityIsOne ==
    (asm_out # <<>> /\ asm_out[1].in[1].emb = asm_out[1].in[2].emb) =>
        LET sim == asm_out[1].feat[1]
        IN  ~sim.nan /\ 999 <= sim.val /\ sim.val <= 1000

\* C12: a feature row with a negative ageDiff is rejected before it is
\* used: no score is ever computed from one.
C12_NegativeAgeDiffRejected ==
    pen_out # <<>> => pen_out[1].age_diff >= 0

\* The validation losses (numbers) seen so far in the run, and the first
\* epoch that attained the least of them.
RefSeen == {v \in LossNums : tr_first[v] > 0}
RefBestEpoch == tr_first[LeastOf(RefSeen)]

\* The epoch just completed has a validation loss strictly below every
\* loss seen before it.
RefImproves == tr_val'.k = "num" /\ \A v \in RefSeen : tr_val'.v < v

\* C13: the model returned by training carries the parameter snapshot taken
\* at the end of the epoch of this run that attained the minimum validation
\* loss (the earliest on ties), never a snapshot from outside the run.
C13_BestSnapshotReturned ==
    tr_pc = "done" =>
        /\ tr_model.run = "this"
        /\ RefSeen # {}
        /\ tr_model.epoch = RefBestEpoch

\* The counter never exceeds P (10 for the probe, 15 for the calibrator);
\* the loop runs on only while it is below P, and has left the loop only
\* with the counter at P or after num_epochs epochs.
C14_Counter ==
    LET P == IF tr_kind = "probe" THEN 10 ELSE 15
    IN  /\ tr_pat <= P
        /\ tr_pc \in {"loop", "save"} => (tr_pat < P /\ tr_epoch <= num_epochs)
        /\ tr_pc \in {"load", "done", "failed"} =>
              (tr_pat = P \/ (tr_pat < P /\ tr_epoch = num_epochs))

\* The counter is 0 after an improving epoch and one more after any other.
C14_Step ==
    tr_epoch' = tr_epoch + 1 =>
        IF RefImproves THEN tr_pat' = 0 ELSE tr_pat' = tr_pat + 1

C14_Halted == tr_pc \in {"done", "failed", "killed"}

\* C14: the patience counter is 0 after every epoch whose validation loss
\* is strictly below the best so far and grows by 1 after every other
\* epoch; training halts at the end of the first epoch at which the counter
\* reaches P, otherwise after exactly num_epochs epochs; it always
\* terminates and the counter never exceeds P.
C14_EarlyStopping == []C14_Counter /\ [][C14_Step]_vars /\ <>C14_Halted

\* A calibrator run stopped early by 15 stagnant epochs after its best
\* epoch, which was not the first.
C14_Witness ==
    /\ tr_pc = "done"
    /\ tr_kind = "calib"
    /\ tr_pat = 15
    /\ tr_epoch < num_epochs
    /\ tr_model.epoch > 1

\* The checkpoint file changes only in an epoch that strictly improves (and
\* when the write of that epoch completes).
C15_OverwriteOnImprove ==
    tr_file' # tr_file =>
        \/ tr_epoch' = tr_epoch + 1 /\ RefImproves
        \/ tr_pc = "save" /\ tr_epoch' = tr_epoch

\* After an interruption the file is the complete snapshot of the best
\* epoch so far, or still what the run found when no epoch improved.
C15_KilledLeavesLastGood ==
    tr_pc = "killed" =>
        /\ tr_file.st # "partial"
        /\ IF RefSeen # {}
           THEN tr_file = File("complete", Snapshot("this", RefBestEpoch))
           ELSE tr_file.snap.run # "this"

\* C15: the checkpoint file is overwritten only in an epoch whose
\* validation loss strictly improves, and after an interruption at any
\* step, a checkpoint write included, the file is a complete snapshot of
\* the last-good parameters.
C15_CheckpointDiscipline == [][C15_OverwriteOnImprove]_vars /\ []C15_KilledLeavesLastGood

\* What the working directory holds at a path.
FileAt(path) == IF path \in DOMAIN fs THEN fs[path] ELSE Unwritten

\* C16: run concurrently in one working directory, the three fits write
\* pairwise disjoint sets of files, none reads a file another writes, and
\* under every interleaving each ends with the artifacts of its own result.
C16_FitsIndependent ==
    /\ \A f \in Fits, g \in Fits :
          f # g => /\ fit_wrote[f] \cap fit_wrote[g] = {}
                   /\ fit_read[f] \cap fit_wrote[g] = {}
    /\ fit_pc["learned"] = "done" =>
          /\ FileAt("similarity_calibrator_best.pth") =
                Content("learned", <<fit_st["learned"].saved>>)
          /\ FileAt("web/public/models/similarity-calibrator/calibrator.onnx") =
                Content("learned", <<fit_st["learned"].saved>>)
    /\ fit_pc["linear"] = "done" =>
          FileAt("web/public/models/similarity-calibrator/linear.json") =
              Content("linear", <<"constrained_linear", fit_st["linear"].x>>)
    /\ fit_pc["penalty"] = "done" =>
          /\ FileAt("web/public/models/similarity-calibrator/penalty.json") =
                Content("penalty", <<"penalty", fit_st["penalty"].x>>)
          /\ FileAt("penalty-calibration-curve.png") =
                Content("penalty", <<fit_st["penalty"].x>>)

\* The three scripts in flight together: the linear one has finished while
\* the learned one has checkpointed twice and not yet exported and the
\* penalty one has written its JSON and not yet its plot; the two bounded
\* fits returned different parameters.
C16_Witness ==
    /\ fit_pc = [f \in Fits |-> IF f = "linear" THEN "done"
                                ELSE IF f = "learned" THEN "save" ELSE "plot"]
    /\ fit_st["learned"].saved = 2
    /\ fit_st["linear"].x # fit_st["penalty"].x
    /\ FileAt("web/public/models/similarity-calibrator/penalty.json") # Unwritten

\* The artifacts a script persists for a fit that converged.
ConvergedArtifacts(f) ==
    IF f = "linear" THEN {linear_artifact(x) : x \in FitParams}
    ELSE {penalty_artifact(x) : x \in FitParams}

\* C20: when the bounded optimizer stops without converging, the model is
\* flagged unreliable in the returned value or the persisted artifact: the
\* artifact of a non-converged fit is not one a converged fit persists.
C20_NonConvergenceFlagged ==
    \A f \in {"linear", "penalty"} :
        (fit_pc[f] = "done" /\ ~fit_st[f].success) =>
            LET path == IF f = "linear"
                        THEN "web/public/models/similarity-calibrator/linear.json"
                        ELSE "web/public/models/similarity-calibrator/penalty.json"
            IN  FileAt(path).val \notin ConvergedArtifacts(f)

\* C17: per-sample failures are not fatal: the extraction visits every
\* sample, and the discards it reports and the samples it retains add up to
\* the samples attempted.
C17_DiscardsReported ==
    ex_pc \in {"loaded", "crashed", "done"} =>
        /\ ex_attempted = ex_total
        /\ ex_skips + ex_retained = ex_attempted

\* C18: with the dataset root or a required model artifact missing, the
\* entry point stops with an error naming the problem before any
\* extraction, fit or write, and never goes on with an empty corpus.
C18_FatalConfigAborts ==
    (~ex_cfg.root \/ ~ex_cfg.models) =>
        /\ ex_pc \in {"start", "models", "root", "aborted"}
        /\ \A i \in 1..Len(ex_log) : ex_log[i] = "error_named"

\* A metric reported as undefined: not a number (a ratio over zero).
IsUndefined(r) == r[2] = 0

\* The evaluation set has pairs of one class only.
OneClassMissing == (NSame = 0 /\ NDiff > 0) \/ (NSame > 0 /\ NDiff = 0)

\* C19: on an evaluation set with no negative pairs (or no positive pairs)
\* the evaluators report the metrics built on the missing rate (EER, AUC,
\* TAR@FAR) as undefined, not as numbers.
C19_UndefinedOnEmptyClass ==
    /\ (lin_metrics # <<>> /\ OneClassMissing) =>
          /\ IsUndefined(lin_metrics[1].eer)
          /\ IsUndefined(lin_metrics[1].auc)
          /\ IsUndefined(lin_metrics[1].tar)
    /\ (pen_metrics # <<>> /\ OneClassMissing) =>
          /\ IsUndefined(pen_metrics[1].eer)
          /\ IsUndefined(pen_metrics[1].tar)

\* C21: scoring is deterministic.  Any two scoring calls of one fitted
\* model -- the penalty formula, the linear sigmoid, or the network as
\* train_calibrator returns it or the audit loads it -- on the same
\* FacePairFeature give the same output, and the model still holds the
\* parameters its fit returned.
C21_ScoringDeterministic ==
    sc_pc = "fitted" =>
        /\ \A a \in sc_seen, b \in sc_seen : a[1] = b[1] => a[2] = b[2]
        /\ sc_params = sc_fitted

\* The network has been scored twice on one feature whose hidden units are
\* active, so that a dropout mask would change the output.
C21_Witness ==
    /\ sc_pc = "fitted"
    /\ sc_kind = "learned"
    /\ sc_epochs > 0
    /\ sc_calls = 2
    /\ Cardinality(sc_seen) = 1
    /\ \E a \in sc_seen, m \in [1..NetWidth -> {0, 1}] :
          forward(sc_params, a[1], m, m, "train") # a[2]

\* Scenario B: every same-person pair has similarity 0.8, whatever its age
\* gap, and every different-person pair a similarity in [0, 0.5].
ScenarioB ==
    /\ \A i \in DOMAIN obj_same : obj_same[i].similarity = 32
    /\ \E i \in DOMAIN obj_same, j \in DOMAIN obj_same :
          obj_same[i].age_diff # obj_same[j].age_diff
    /\ \A i \in DOMAIN obj_diff : obj_diff[i].similarity \in 0..20

\* C22: on Scenario B data the alpha that fit_penalty_calibrator returns
\* has moved from the initial guess 0.005 toward its lower bound 0.
C22_ScenarioBAlphaNearZero ==
    (obj_pc = "done" /\ ScenarioB) => obj_x[1] < pen_initial_params[1]

\* C23: the similarity weight the constrained linear fit returns is
\* strictly positive, so that of two feature rows equal in age gap and
\* uncertainty the one with the strictly higher similarity has the strictly
\* higher logit.
C23_SimilarityWeightPositive ==
    lin_pc = "done" =>
        /\ lin_x[2] > 0
        /\ \A f \in LinFeatures, g \in LinFeatures :
              (f[2] = g[2] /\ f[4] = g[4] /\ f[1] < g[1]) =>
                  Logit(lin_x, f) < Logit(lin_x, g)

\* C24: every row labelled 1 by generate_synthetic_pairs or
\* generate_pair_data comes from two distinct pool indices i < j less than
\* the local window apart whose similarity is strictly above the threshold
\* (0.75 resp. 0.70), and at no point are there more such rows than the cap
\* (num_same resp. num_pairs // 4).
C24_SyntheticPositives ==
    /\ \A r \in gen_pos :
          /\ r.i < r.j
          /\ r.j - r.i < local_window(gen_kind)
          /\ r.j < Len(gen_pool)
          /\ LET sim == cosine_similarity(gen_pool[r.i + 1], gen_pool[r.j + 1])
             IN  /\ ~sim.nan
                 /\ sim.val > (IF gen_kind = "penalty" THEN 750 ELSE 700)
                 /\ r.similarity = sim
    /\ Cardinality(gen_pos) <= (IF gen_kind = "penalty" THEN gen_num ELSE gen_num \div 4)

\* A penalty run that stopped at the cap of two rows while the pool holds a
\* pair above the threshold that lies outside the window; and the pool has
\* a pair above 0.70 but not above 0.75.
C24_Witness ==
    /\ gen_pc = "done"
    /\ gen_kind = "penalty"
    /\ gen_num = 2
    /\ Cardinality(gen_pos) = 2
    /\ \E i \in 1..Len(gen_pool), j \in 1..Len(gen_pool) :
          /\ j - i >= PenWindow
          /\ high_similarity("penalty", cosine_similarity(gen_pool[i], gen_pool[j]))
    /\ \E i \in 1..Len(gen_pool), j \in 1..Len(gen_pool) :
          /\ i < j
          /\ high_similarity("learned", cosine_similarity(gen_pool[i], gen_pool[j]))
          /\ ~high_similarity("penalty", cosine_similarity(gen_pool[i], gen_pool[j]))

\* The network's output on the rows of the audit's grid (similarity -0.2
\* to 1.0, age gap 0 to 80 years, uncertainty 0) does not depend on the age
\* gap.
IgnoresAgeDiff(p) ==
    \A s \in {0 - 4, 0, 8, 12, 17, 20}, a \in 0..8 :
        forward(p, <<s, a, 0>>, <<>>, <<>>, "eval") = forward(p, <<s, 0, 0>>, <<>>, <<>>, "eval")

\* C25: the audit's age sensitivity is |p(0.85,0) - p(0.85,80)| +
\* |p(0.40,0) - p(0.40,80)| at uncertainty 0, the insensitivity warning is
\* printed exactly when it is below 0.05, and a model whose output does not
\* depend on the age gap is flagged insensitive, never reported as using
\* age_diff.
C25_AgeSensitivityDetected ==
    sc_verdict # <<>> =>
        LET v == sc_verdict[1]
            q(s, a) == forward(sc_params, <<s, a, 0>>, <<>>, <<>>, "eval")
        IN  /\ v.age_sensitivity = Abs(q(17, 0) - q(17, 8)) + Abs(q(8, 0) - q(8, 8))
            /\ v.verdict = "insensitive" <=> v.age_sensitivity < 50000
            /\ v.verdict \in {"insensitive", "uses_age_diff"}
            /\ IgnoresAgeDiff(sc_params) => v.verdict = "insensitive"

\* The audit has flagged a model that separates the two similarities but
\* gives the same output at every age gap.
C25_Witness ==
    /\ sc_verdict # <<>>
    /\ IgnoresAgeDiff(sc_params)
    /\ sc_verdict[1].p[1] # sc_verdict[1].p[3]
    /\ sc_verdict[1].verdict = "insensitive"

\* The calibrated scores of the training rows under the current iterate,
\* and their separation: every same-person score exceeds every
\* different-person score by more than one step of the threshold grid
\* (1/999; a score n stands for n/40).
ObjSameScores == pen_apply(obj_x, obj_same)
ObjDiffScores == pen_apply(obj_x, obj_diff)
SeparatedByAStep ==
    \A i \in DOMAIN obj_same, j \in DOMAIN obj_diff :
        (ObjSameScores[i] - ObjDiffScores[j]) * (PenGridN - 1) > 40

\* C26: the threshold grid of evaluate_calibration covers the observed
\* score range: on score sets separated by more than one grid step it
\* reports EER 0, wherever on the score axis the sets lie.
C26_GridCoversScores ==
    (obj_pc \in {"iter", "done"} /\ SeparatedByAStep) =>
        pen_objective(obj_x, obj_same, obj_diff) = 0

\* C27: in extract_embeddings_from_utkface, extract_embeddings_from_fairface
\* and generate_pair_data the number of samples collected never exceeds
\* max_samples / max_images, and once it has reached the cap no directory
\* or parquet file adds a sample.
C27_Capped ==
    col_script \in {"utkface", "fairface", "learned"} =>
        collected(col_script, col_img, col_emb) <= col_max
C27_NoSampleAtCap ==
    (col_script \in {"utkface", "fairface", "learned"}
        /\ col_pc \in {"source", "sample"}
        /\ collected(col_script, col_img, col_emb) >= col_max)
    => collected(col_script, col_img', col_emb') = collected(col_script, col_img, col_emb)
C27_SampleCap == []C27_Capped /\ [][C27_NoSampleAtCap]_vars

\* The run has returned with exactly the cap collected, the cap reached at
\* the end of a directory, and a later directory holding files that were
\* not visited.
C27_Witness ==
    /\ col_pc = "done"
    /\ col_script = "utkface"
    /\ Len(col_emb) = col_max
    /\ col_d > 1
    /\ col_d <= Len(col_src)
    /\ col_src[col_d] > 0
    /\ col_emb[Len(col_emb)] = Sample(col_d - 1, col_src[col_d - 1])

C29_CheckpointIsolation ==
    \A t \in Trainers : pp_pc[t] = "done" => pp_model[t].run = t

\* C30: for fitted parameters in the box (alpha >= 0, M >= 10) the calibrated
\* score of a pair lies between s - alpha*M and s, no larger age gap gives
\* the same s a higher score, and every larger s gives a strictly higher
\* score at the same age gap.
C30_PenaltyBoundedMonotone ==
    pen_out # <<>> =>
        LET alpha == pen_x[1]
            tau == pen_x[2]
            M == pen_x[3]
            o == pen_out[1]
            score(sim, ad) == penalty_calibration(sim, ad, alpha, tau, M)
        IN  /\ o.s - alpha * M <= o.score
            /\ o.score <= o.s
            /\ \A ad \in PenAgeDiffs :
                  o.age_diff <= ad => score(o.s, ad) <= o.score
            /\ \A sim \in PenSimVals :
                  o.s < sim => o.score < score(sim, o.age_diff)

\* A pair scored on the ramp, between tau and tau + M, with alpha > 0: part
\* of the penalty is taken off and both bounds are strict.
C30_Witness ==
    /\ pen_out # <<>>
    /\ pen_x[1] > 0
    /\ pen_out[1].age_diff > pen_x[2]
    /\ pen_out[1].age_diff < pen_x[2] + pen_x[3]
    /\ pen_out[1].s - pen_x[1] * pen_x[3] < pen_out[1].score
    /\ pen_out[1].score < pen_out[1].s

====
